---- MODULE Spec2Model ----
(***************************************************************************)
(* Goal detection, de-duplication and posting workflow of the NHL goal bot *)
(* (src/index.mjs, lines 1-633).                                           *)
(*                                                                         *)
(* Time.  Date.now() is counted in ticks of MS_PER_TICK milliseconds; every *)
(* duration of the program (delays, poll interval, lock ceiling, retention *)
(* age, length of a day, Eastern offset) is a whole number of ticks.       *)
(*                                                                         *)
(* Concurrency.  Node runs one callback at a time: each action below is the *)
(* code that runs between two awaits.  A timer (delay(ms), the setInterval  *)
(* poll timer) fires at its deadline: time does not pass a due timer.  The  *)
(* verification fetch, bot.post and bot.login return after any amount of    *)
(* time; the schedule and play-by-play fetches of pollGames return within   *)
(* the tick in which they were sent.                                        *)
(***************************************************************************)
EXTENDS Integers, Sequences, FiniteSets, TLC

\* ---------------------------------------------------------------- bounds
\* Unit clock steps a behaviour may take.
MaxTicks == 9
\* pollGames invocations with a live game that may be in flight at once.
MaxCycles == 2
\* Scoring plays one play-by-play response may carry.
MaxGoals == 1
\* Quiet periods (polls that find no live game) a behaviour may contain.
MaxQuiet == 1

\* ------------------------------------------------------- program constants
MS_PER_TICK == 15 * 1000
INITIAL_DELAY == 45000 \div MS_PER_TICK
POST_DELAY == 60000 \div MS_PER_TICK
POLL_INTERVAL == 45000 \div MS_PER_TICK
MAX_UPDATES == 2
\* setPostingLock: a lock older than 60000 ms is stale.
LOCK_MAX_AGE == 60000 \div MS_PER_TICK
\* handleGoalUpdate: ageInMinutes > 360 evicts the record.
MAX_AGE_MINUTES == 360
MINUTE_TICKS == 60000 \div MS_PER_TICK
DAY_TICKS == (24 * 60 * 60 * 1000) \div MS_PER_TICK
\* getEasternTime: etOffset = -5 hours.
ET_OFFSET == (0 - 5 * 60 * 60 * 1000) \div MS_PER_TICK

\* A quiet period lasts long enough for a record to pass the retention age
\* (a whole number of poll intervals, each poll finding no live game).
QUIET_TICKS == POLL_INTERVAL * (((MAX_AGE_MINUTES + 1) * MINUTE_TICKS) \div POLL_INTERVAL + 1)

\* The first Eastern midnight after tick 0, and the times the process may start.
ET_MIDNIGHT == DAY_TICKS - ET_OFFSET
StartTimes == {ET_MIDNIGHT - DAY_TICKS \div 2, ET_MIDNIGHT - 4}

\* --------------------------------------------------------- provider data
GameIds == {<<2, 0, 1>>}
Scorers == {"A B (#9)", "C D (#7)"}
AWAY == "AWY"
HOME == "HOM"

\* A Goal as processGoalPlay builds it.  time is <<minutes, seconds>> of the
\* "MM:SS" string; score is the pair the string "<away> - <home>" shows.
MkGoal(eventId, scorer, assists, time, period, away, home) ==
    [eventId |-> eventId, scorer |-> scorer, assists |-> assists, time |-> time,
     period |-> period, team |-> HOME,
     score |-> <<away, home>>,
     rawScores |-> [away |-> away, home |-> home]]

\* The observations the provider may return for a game: one scoring play seen
\* with two clocks of the same minute, the same play credited to the other
\* scorer, and a second play that differs from the first in its eventId only.
Goals ==
    {MkGoal(1, "A B (#9)", "", <<"04", "12">>, 1, 1, 0),
     MkGoal(1, "A B (#9)", "", <<"04", "09">>, 1, 1, 0),
     MkGoal(1, "C D (#7)", "", <<"04", "12">>, 1, 1, 0),
     MkGoal(2, "A B (#9)", "", <<"04", "09">>, 1, 1, 0)}

NoGoal == MkGoal(0, "", "", <<"", "">>, 0, 0, 0)
NoKey == <<>>
NoGame == <<>>

\* ------------------------------------------------------------- helpers
Del(f, k) == [x \in DOMAIN f \ {k} |-> f[x]]
Put(f, k, v) == [x \in DOMAIN f \cup {k} |-> IF x = k THEN v ELSE f[x]]
Empty == [x \in {} |-> 0]

\* goal.time.split(':')[0]
MinuteOf(time) == time[1]

createGoalKey(gameId, goal) ==
    <<gameId, goal.eventId, goal.scorer, goal.period, MinuteOf(goal.time),
      goal.rawScores.away, goal.rawScores.home>>

\* key.startsWith(gameId): the key string is "<gameId>-<eventId>-..."
KeyStartsWith(key, gameId) ==
    LET s == key[1] \o <<"-">>
    IN  /\ Len(gameId) <= Len(s)
        /\ \A i \in 1..Len(gameId) : s[i] = gameId[i]

\* getEasternTime + getDate/getMonth/getFullYear: the Eastern calendar day.
EasternDay(ts) == (ts + ET_OFFSET) \div DAY_TICKS

isTodayAt(ts, t) == EasternDay(ts) = EasternDay(t)

\* Math.round((now - timestamp) / 60000)
getAgeInMinutesAt(ts, t) == (2 * (t - ts) + MINUTE_TICKS) \div (2 * MINUTE_TICKS)

\* A diff that also compares the clock.
getUpdatedFieldsWithTime(newGoal, oldGoal) ==
    (IF newGoal.scorer # oldGoal.scorer THEN <<"scorer">> ELSE <<>>)
    \o (IF newGoal.assists # oldGoal.assists THEN <<"assists">> ELSE <<>>)
    \o (IF newGoal.period # oldGoal.period THEN <<"period">> ELSE <<>>)
    \o (IF newGoal.score # oldGoal.score THEN <<"score">> ELSE <<>>)
    \o (IF newGoal.time # oldGoal.time THEN <<"time">> ELSE <<>>)

\* Lines 212-219.
getUpdatedFields(newGoal, oldGoal) ==
    (IF newGoal.scorer # oldGoal.scorer THEN <<"scorer">> ELSE <<>>)
    \o (IF newGoal.assists # oldGoal.assists THEN <<"assists">> ELSE <<>>)
    \o (IF newGoal.period # oldGoal.period THEN <<"period">> ELSE <<>>)
    \o (IF newGoal.score # oldGoal.score THEN <<"score">> ELSE <<>>)

Includes(seq, x) == \E i \in 1..Len(seq) : seq[i] = x

\* A message is kept as its parts; an omitted line is an empty part.
NoText == [head |-> "", note |-> <<>>, scorerLine |-> <<>>, assists |-> "",
           time |-> <<"", "">>, period |-> 0, score |-> <<0, 0>>]

formatGoalMessage(goal) ==
    [head |-> "GOAL! ", note |-> <<>>,
     scorerLine |-> <<goal.scorer, " (", goal.team, ") is the scorer!">>,
     assists |-> goal.assists, time |-> goal.time, period |-> goal.period,
     score |-> goal.score]

correctionMessage(goal, previousGoal, updatedFields) ==
    [head |-> "CORRECTION: ",
     note |-> IF Includes(updatedFields, "scorer")
              THEN <<"Goal now credited to ", goal.scorer, " (previously ",
                     previousGoal.scorer, ")">>
              ELSE <<>>,
     scorerLine |-> <<>>,
     assists |-> goal.assists, time |-> goal.time, period |-> goal.period,
     score |-> goal.score]

\* ----------------------------------------------------------------- state
VARIABLES
    now,                \* Date.now(), in ticks
    ticks,              \* unit clock steps taken
    quiets,             \* quiet periods taken
    previousScores,     \* goalKey -> tracked record
    postingInProgress,  \* goalKey -> time the lock was taken
    lastMemoryReset,    \* global.lastMemoryReset
    botPc,              \* startBot: "login", "polling", "cooldown" or "exited"
    restart,            \* startBot's loop: the awaited initial poll, the end of
                        \* the cool-down, the interval timers of earlier iterations
    nextPoll,           \* deadline of the setInterval(pollGames) timer
    cyc,                \* the pollGames invocations in flight
    goalPosts,          \* goalKey -> times of the confirmed 'GOAL!' publishes
    corrections,        \* goalKey -> number of confirmed 'CORRECTION:' publishes
    events              \* what the last step did, in order

vars == <<now, ticks, quiets, previousScores, postingInProgress, lastMemoryReset,
          botPc, restart, nextPoll, cyc, goalPosts, corrections, events>>

\* startBot before any restart: no poll awaited, no cool-down, no timer of an
\* earlier iteration of the loop.
NoRestart ==
    [awaited |-> 0, wake |-> 0, oldTimers |-> <<>>, attempt |-> 0, loggedIn |-> FALSE]

Cycles == 1..MaxCycles

\* A pollGames invocation that is not running.  countAtEntry: on the update
\* path, the updateCount the invocation found in the record (line 415).
Idle ==
    [pc |-> "idle", start |-> 0, games |-> <<>>, gameId |-> NoGame, goals |-> <<>>,
     goal |-> NoGoal, key |-> NoKey, hnow |-> 0, path |-> "none", stage |-> 0,
     wake |-> 0, text |-> NoText, countAtEntry |-> 0]

\* pc values at which a handleGoalUpdate invocation is suspended.
WorkflowPcs == {"settle", "verify", "post", "renew", "postdelay"}

\* An entry of events.  at: the start time of the cycle, for "cycleDone".  An
\* "observe" entry also holds the observed goal and previousScores as
\* handleGoalUpdate found it and as it left it at its first await or return.
Ev(ev, key, kind, text) ==
    [ev |-> ev, key |-> key, kind |-> kind, text |-> text, at |-> 0,
     goal |-> NoGoal, before |-> Empty, after |-> Empty]

EvObserve(key, class, goal, before, after) ==
    [Ev("observe", key, class, NoText) EXCEPT
        !.goal = goal, !.before = before, !.after = after]

EvDone(start) == [Ev("cycleDone", NoKey, "", NoText) EXCEPT !.at = start]

\* --------------------------------------------------------- posting lock
\* A lock test without the staleness override.
LockRefusedWhileHeld(locks, key, t) == key \in DOMAIN locks

\* setPostingLock's test: an existing lock that is not older than the ceiling
\* refuses the caller.
LockRefused(locks, key, t) ==
    /\ key \in DOMAIN locks
    /\ ~(t - locks[key] > LOCK_MAX_AGE)

setPostingLock(locks, key, t) == Put(locks, key, t)

clearPostingLock(locks, key) == Del(locks, key)

\* -------------------------------------------- handleGoalUpdate, first part
\* Lines 250-267: the record of this key is dropped when it is too old.
ShouldEvict(ps, key, t) ==
    /\ key \in DOMAIN ps
    /\ \/ getAgeInMinutesAt(ps[key].timestamp, t) > MAX_AGE_MINUTES
       \/ ~isTodayAt(ps[key].timestamp, t)

\* A scan that compares the whole clock, seconds included.
SameGoalExactClock(prevGoal, goal) ==
    /\ prevGoal.period = goal.period
    /\ prevGoal.time = goal.time
    /\ prevGoal.scorer = goal.scorer
    /\ prevGoal.rawScores.away = goal.rawScores.away
    /\ prevGoal.rawScores.home = goal.rawScores.home

\* Lines 278-282: the fields the scan compares.
SameGoalButSeconds(prevGoal, goal) ==
    /\ prevGoal.period = goal.period
    /\ MinuteOf(prevGoal.time) = MinuteOf(goal.time)
    /\ prevGoal.scorer = goal.scorer
    /\ prevGoal.rawScores.away = goal.rawScores.away
    /\ prevGoal.rawScores.home = goal.rawScores.home

\* Lines 273-295: the scan over every tracked record.
isDuplicate(ps, gameId, goal, t) ==
    \E k \in DOMAIN ps :
        /\ KeyStartsWith(k, gameId)
        /\ ps[k].posted
        /\ isTodayAt(ps[k].timestamp, t)
        /\ SameGoalButSeconds(ps[k].goal, goal)

\* Line 414-416: the guard of the correction branch.
UpdateAllowed(rec, t) ==
    /\ rec.posted
    /\ rec.updateCount < MAX_UPDATES
    /\ isTodayAt(rec.timestamp, t)

\* A selection without the branch for unposted records.
ClassifyExactWithoutRetry(ps, goal, key, t) ==
    IF key \notin DOMAIN ps THEN "NEW"
    ELSE IF ~ps[key].posted THEN "SKIP"
    ELSE IF UpdateAllowed(ps[key], t)
         THEN IF Len(getUpdatedFields(goal, ps[key].goal)) > 0
              THEN "UPDATE" ELSE "UPDATE_NODIFF"
    ELSE "SKIP"

\* Lines 317, 377, 414-421, 462: the branch the record of the key selects.
ClassifyExact(ps, goal, key, t) ==
    IF key \notin DOMAIN ps THEN "NEW"
    ELSE IF ~ps[key].posted THEN "RETRY"
    ELSE IF UpdateAllowed(ps[key], t)
         THEN IF Len(getUpdatedFields(goal, ps[key].goal)) > 0
              THEN "UPDATE" ELSE "UPDATE_NODIFF"
    ELSE "SKIP"

\* Lines 297-470: the branch taken once the lock is held and the eviction done.
Classify(ps, gameId, goal, key, t) ==
    IF isDuplicate(ps, gameId, goal, t) THEN "DUPLICATE"
    ELSE ClassifyExact(ps, goal, key, t)

\* A record whose counter is initialised from the clock.
NewRecordCountFromClock(goal, t) ==
    [firstSeen |-> t, posted |-> FALSE, updateCount |-> t, timestamp |-> t, goal |-> goal]

\* Line 415: the updateCount that an invocation entering the update branch
\* read from the record of its key.
CountAtEntry(ps, key, path) ==
    IF path = "update" /\ key \in DOMAIN ps THEN ps[key].updateCount ELSE 0

\* Lines 318-324: the record of a goal seen for the first time.
NewRecord(goal, t) ==
    [firstSeen |-> t, posted |-> FALSE, updateCount |-> 0, timestamp |-> t, goal |-> goal]

\* A refusal that leaves through the finally block of line 471-473.
RefusedThroughFinally(ps, locks, key, goal) ==
    [ps |-> ps, locks |-> clearPostingLock(locks, key), pc |-> "idle", path |-> "none",
     wake |-> 0, text |-> NoText, evs |-> <<EvObserve(key, "LOCKED", goal, ps, ps)>>]

\* Lines 243-247: the lock is held by another invocation; the return is
\* outside the inner try, so no finally block runs.
Refused(ps, locks, key, goal) ==
    [ps |-> ps, locks |-> locks, pc |-> "idle", path |-> "none", wake |-> 0,
     text |-> NoText, evs |-> <<EvObserve(key, "LOCKED", goal, ps, ps)>>]

\* handleGoalUpdate from its call to its first await or its return.  The result
\* says where the invocation is suspended (pc "idle": it returned).  scan: the
\* scan of lines 269-306 is run (as handleGoalUpdate does) or left out.
EnterWith(scan, ps, locks, gameId, goal, t) ==
    LET key == createGoalKey(gameId, goal)
    IN
    IF LockRefused(locks, key, t)
    THEN Refused(ps, locks, key, goal)
    ELSE
    LET locks1 == setPostingLock(locks, key, t)
        evict == ShouldEvict(ps, key, t)
        ps1 == IF evict THEN Del(ps, key) ELSE ps
        ev0 == IF evict THEN <<Ev("evict", key, "", NoText)>> ELSE <<>>
        class == IF scan THEN Classify(ps1, gameId, goal, key, t)
                 ELSE ClassifyExact(ps1, goal, key, t)
        released == clearPostingLock(locks1, key)
        res ==
            CASE class = "NEW" ->
                    [ps |-> Put(ps1, key, NewRecord(goal, t)), locks |-> locks1,
                     pc |-> "settle", path |-> "new", wake |-> t + INITIAL_DELAY,
                     text |-> formatGoalMessage(goal), evs |-> <<>>]
              [] class = "RETRY" ->
                    [ps |-> ps1, locks |-> locks1, pc |-> "post", path |-> "retry",
                     wake |-> 0, text |-> formatGoalMessage(goal),
                     evs |-> <<Ev("call", key, "GOAL", formatGoalMessage(goal))>>]
              [] class = "UPDATE" ->
                    LET text == correctionMessage(goal, ps1[key].goal,
                                                  getUpdatedFields(goal, ps1[key].goal))
                    IN  [ps |-> [ps1 EXCEPT ![key].updateCount = @ + 1], locks |-> locks1,
                         pc |-> "post", path |-> "update", wake |-> 0, text |-> text,
                         evs |-> <<Ev("call", key, "CORRECTION", text)>>]
              [] class = "UPDATE_NODIFF" ->
                    [ps |-> [ps1 EXCEPT ![key].updateCount = @ + 1], locks |-> released,
                     pc |-> "idle", path |-> "none", wake |-> 0, text |-> NoText,
                     evs |-> <<>>]
              [] OTHER ->
                    [ps |-> ps1, locks |-> released, pc |-> "idle", path |-> "none",
                     wake |-> 0, text |-> NoText, evs |-> <<>>]
    IN  [res EXCEPT !.evs = ev0 \o <<EvObserve(key, class, goal, ps, res.ps)>> \o @]

Enter(ps, locks, gameId, goal, t) == EnterWith(TRUE, ps, locks, gameId, goal, t)

\* ------------------------------------------------- pollGames, the two loops
\* Lines 555-574: the goals of a game are done; fetch the next live game, or end.
NextGame(loc, ps, locks, evs) ==
    IF loc.games = <<>>
    THEN [loc |-> Idle, ps |-> ps, locks |-> locks, evs |-> evs \o <<EvDone(loc.start)>>]
    ELSE [loc |-> [Idle EXCEPT !.pc = "pbp", !.start = loc.start,
                               !.gameId = Head(loc.games), !.games = Tail(loc.games)],
          ps |-> ps, locks |-> locks, evs |-> evs]

\* The loop of lines 568-570 without its await: the goal after one whose
\* invocation suspended is handed to handleGoalUpdate in the same turn.
RECURSIVE RunGoalsNoAwait(_, _, _, _, _, _)
RunGoalsNoAwait(loc, goals, ps, locks, evs, t) ==
    IF goals = <<>>
    THEN NextGame(loc, ps, locks, evs)
    ELSE LET g == Head(goals)
             r == Enter(ps, locks, loc.gameId, g, t)
         IN  IF r.pc = "idle"
             THEN RunGoalsNoAwait(loc, Tail(goals), r.ps, r.locks, evs \o r.evs, t)
             ELSE LET more == Tail(goals) # <<>>
                      n == IF more
                           THEN Enter(r.ps, r.locks, loc.gameId, Head(Tail(goals)), t)
                           ELSE r
                  IN  [loc |-> [loc EXCEPT !.pc = r.pc, !.goals = Tail(goals), !.goal = g,
                                           !.key = createGoalKey(loc.gameId, g),
                                           !.hnow = t, !.path = r.path,
                                           !.stage = IF r.pc = "post" THEN 1 ELSE 0,
                                           !.wake = r.wake, !.text = r.text],
                       ps |-> n.ps, locks |-> n.locks,
                       evs |-> evs \o r.evs \o (IF more THEN n.evs ELSE <<>>)]

\* Lines 568-570: handleGoalUpdate for each goal in turn, up to the first one
\* that suspends; an invocation that returns at once lets the loop go on in
\* the same turn of the event loop.
RECURSIVE RunGoals(_, _, _, _, _, _)
RunGoals(loc, goals, ps, locks, evs, t) ==
    IF goals = <<>>
    THEN NextGame(loc, ps, locks, evs)
    ELSE LET g == Head(goals)
             r == Enter(ps, locks, loc.gameId, g, t)
         IN  IF r.pc = "idle"
             THEN RunGoals(loc, Tail(goals), r.ps, r.locks, evs \o r.evs, t)
             ELSE [loc |-> [loc EXCEPT !.pc = r.pc, !.goals = Tail(goals), !.goal = g,
                                       !.key = createGoalKey(loc.gameId, g),
                                       !.hnow = t, !.path = r.path,
                                       !.stage = IF r.pc = "post" THEN 1 ELSE 0,
                                       !.wake = r.wake, !.text = r.text,
                                       !.countAtEntry =
                                           CountAtEntry(ps, createGoalKey(loc.gameId, g),
                                                        r.path)],
                   ps |-> r.ps, locks |-> r.locks, evs |-> evs \o r.evs]

\* A return without the finally block.
FinishKeepsLock(loc, ps, locks, evs, t) ==
    RunGoals(loc, loc.goals, ps, locks, evs, t)

\* Lines 471-473: the finally block, then the caller's loop.
Finish(loc, ps, locks, evs, t) ==
    RunGoals(loc, loc.goals, ps, clearPostingLock(locks, loc.key), evs, t)

\* ------------------------------------------- handleGoalUpdate, after awaits
\* Lines 333-372: the verification result of a new goal.
\* A guard that does not look at the re-fetched plays.
MayPostWhateverFound(ps, key, found) == ~(key \in DOMAIN ps /\ ps[key].posted)

MayPostAfterVerify(ps, key, found) ==
    /\ found
    /\ ~(key \in DOMAIN ps /\ ps[key].posted)

\* A catch block of line 373-376 that logs the error and keeps the record.
AfterVerifyErrorKeepsRecord(loc, outcome, ps, locks, t) ==
    IF outcome = "throw"
    THEN Finish(loc, ps, locks, <<Ev("verify", loc.key, outcome, NoText)>>, t)
    ELSE IF MayPostAfterVerify(ps, loc.key, outcome = "present")
    THEN [loc |-> [loc EXCEPT !.pc = "post", !.stage = 1], ps |-> ps, locks |-> locks,
          evs |-> <<Ev("verify", loc.key, outcome, NoText),
                    Ev("call", loc.key, "GOAL", loc.text)>>]
    ELSE Finish(loc, Del(ps, loc.key), locks,
                <<Ev("verify", loc.key, outcome, NoText)>>, t)

\* outcome: "present" (the play is in the response), "vanished" (it is not),
\* "throw" (fetchGamePlayByPlay threw).
AfterVerify(loc, outcome, ps, locks, t) ==
    IF outcome # "throw" /\ MayPostAfterVerify(ps, loc.key, outcome = "present")
    THEN [loc |-> [loc EXCEPT !.pc = "post", !.stage = 1], ps |-> ps, locks |-> locks,
          evs |-> <<Ev("verify", loc.key, outcome, NoText),
                    Ev("call", loc.key, "GOAL", loc.text)>>]
    ELSE Finish(loc, Del(ps, loc.key), locks,
                <<Ev("verify", loc.key, outcome, NoText)>> \o
                (IF loc.key \in DOMAIN ps
                 THEN <<Ev("delete", loc.key, IF ps[loc.key].posted THEN "posted" ELSE "unposted",
                           NoText)>>
                 ELSE <<>>),
                t)

PublishKind(path) == IF path = "update" THEN "CORRECTION" ELSE "GOAL"

\* A test that takes any response for a confirmation.
ConfirmedByAnyResponse(outcome) == outcome # "throw"

\* Lines 351, 396, 447: if (postResponse?.uri)
Confirmed(outcome) == outcome = "uri"

\* Lines 351-358, 396-403: a confirmed announcement marks the record.
MarkPosted(rec, hnow) == [rec EXCEPT !.posted = TRUE, !.timestamp = hnow]

\* A catch block that writes the flag of the success branch.
MarkUnpostedAsPosted(rec) == [rec EXCEPT !.posted = TRUE]

\* Lines 364-368, 409-413: the catch block of the announcement.
MarkUnposted(rec) == [rec EXCEPT !.posted = FALSE]

\* A confirmed correction that stamps the record and keeps the old goal.
MarkCorrectedKeepsGoal(rec, goal, hnow) == [rec EXCEPT !.timestamp = hnow]

\* Lines 453-454: a confirmed correction replaces the tracked goal.
MarkCorrected(rec, goal, hnow) == [rec EXCEPT !.goal = goal, !.timestamp = hnow]

\* The code after the last bot.post of an attempt.  outcome: "uri" (a response
\* with a uri), "nouri" (a response without one), "throw".  A write to a record
\* that is no longer in previousScores throws a TypeError, which ends the
\* invocation through its catch and finally blocks.
AfterPost(loc, outcome, ps, locks, t) ==
    LET key == loc.key
        has == key \in DOMAIN ps
        conf == IF outcome = "uri"
                THEN <<Ev("confirm", key, PublishKind(loc.path), loc.text)>>
                ELSE <<Ev("fail", key, PublishKind(loc.path), loc.text)>>
    IN
    IF loc.path = "update"
    THEN Finish(loc,
                IF Confirmed(outcome) /\ has
                THEN [ps EXCEPT ![key] = MarkCorrected(@, loc.goal, loc.hnow)] ELSE ps,
                locks, conf, t)
    ELSE CASE outcome # "throw" /\ Confirmed(outcome) /\ has ->
                [loc |-> [loc EXCEPT !.pc = "postdelay", !.wake = t + POST_DELAY],
                 ps |-> [ps EXCEPT ![key] = MarkPosted(@, loc.hnow)],
                 locks |-> locks, evs |-> conf]
           [] outcome # "throw" /\ ~Confirmed(outcome) ->
                [loc |-> [loc EXCEPT !.pc = "postdelay", !.wake = t + POST_DELAY],
                 ps |-> ps, locks |-> locks, evs |-> conf]
           [] outcome = "throw" /\ has ->
                Finish(loc, [ps EXCEPT ![key] = MarkUnposted(@)], locks, conf, t)
           [] OTHER ->
                Finish(loc, ps, locks, conf, t)

\* The ghost record of the confirmed publishes.
NoteGoalPost(gp, loc, outcome, t) ==
    IF outcome = "uri" /\ loc.path # "update"
    THEN Put(gp, loc.key, (IF loc.key \in DOMAIN gp THEN gp[loc.key] ELSE <<>>) \o <<t>>)
    ELSE gp

NoteCorrection(co, loc, outcome) ==
    IF outcome = "uri" /\ loc.path = "update"
    THEN Put(co, loc.key, (IF loc.key \in DOMAIN co THEN co[loc.key] ELSE 0) + 1)
    ELSE co

\* --------------------------------------------------------------- actions
Init ==
    /\ now \in StartTimes
    /\ ticks = 0
    /\ quiets = 0
    /\ previousScores = Empty
    /\ postingInProgress = Empty
    /\ lastMemoryReset = now
    /\ botPc = "login"
    /\ restart = NoRestart
    /\ nextPoll = 0
    /\ cyc = [c \in Cycles |-> Idle]
    /\ goalPosts = Empty
    /\ corrections = Empty
    /\ events = <<>>

\* A day test by elapsed time: a whole day since the last reset.
DayRolledAfterWholeDay(t) == t - lastMemoryReset >= DAY_TICKS

\* Lines 531-545: pollGames up to its first await.
DayRolled(t) == ~isTodayAt(lastMemoryReset, t)

BeginPoll(c) ==
    /\ cyc[c].pc = "idle"
    /\ \A d \in Cycles : d < c => cyc[d].pc # "idle"
    /\ cyc' = [cyc EXCEPT ![c] = [Idle EXCEPT !.pc = "schedule", !.start = now]]
    /\ previousScores' = IF DayRolled(now) THEN Empty ELSE previousScores
    /\ lastMemoryReset' = IF DayRolled(now) THEN now ELSE lastMemoryReset
    /\ events' = IF DayRolled(now) THEN <<Ev("clear", NoKey, "", NoText)>> ELSE <<>>

\* Lines 524-603: attemptLogin succeeded; the interval is set and the initial
\* poll is started.
LoginOk ==
    /\ botPc = "login"
    /\ botPc' = "polling"
    /\ nextPoll' = now + POLL_INTERVAL
    /\ BeginPoll(1)
    /\ UNCHANGED <<now, ticks, quiets, postingInProgress, goalPosts, corrections, restart>>

\* Line 587: the interval timer calls pollGames.
PollTimer(c) ==
    /\ botPc = "polling"
    /\ now >= nextPoll
    /\ nextPoll' = now + POLL_INTERVAL
    /\ BeginPoll(c)
    /\ UNCHANGED <<now, ticks, quiets, postingInProgress, botPc, goalPosts, corrections, restart>>

\* Lines 529-553, 575-583: a poll whose schedule fetch finds no live game (or
\* fails with an error the catch block swallows) does the day check and nothing
\* else, whenever the fetch returns.
PollNoLiveGame ==
    /\ botPc = "polling"
    /\ now >= nextPoll
    /\ nextPoll' = now + POLL_INTERVAL
    /\ previousScores' = IF DayRolled(now) THEN Empty ELSE previousScores
    /\ lastMemoryReset' = IF DayRolled(now) THEN now ELSE lastMemoryReset
    /\ events' = (IF DayRolled(now) THEN <<Ev("clear", NoKey, "", NoText)>> ELSE <<>>)
                  \o <<EvDone(now)>>
    /\ UNCHANGED <<now, ticks, quiets, postingInProgress, botPc, cyc, goalPosts,
                   corrections, restart>>

Apply(c, r) ==
    /\ cyc' = [cyc EXCEPT ![c] = r.loc]
    /\ previousScores' = r.ps
    /\ postingInProgress' = r.locks
    /\ events' = r.evs

\* Lines 545-557: fetchNHLSchedule returned the live games, or failed with an
\* error that the cycle's catch block swallows.
LiveGameLists == {<<>>} \cup {<<g>> : g \in GameIds}

ScheduleReturnsFrom(c, lists) ==
    /\ cyc[c].pc = "schedule"
    /\ \E ok \in BOOLEAN : \E live \in lists :
          Apply(c, IF ok
                   THEN NextGame([cyc[c] EXCEPT !.games = live], previousScores,
                                 postingInProgress, <<>>)
                   ELSE NextGame(cyc[c], previousScores, postingInProgress, <<>>))
    /\ UNCHANGED <<now, ticks, quiets, lastMemoryReset, botPc, nextPoll, goalPosts,
                   corrections, restart>>

ScheduleReturns(c) == ScheduleReturnsFrom(c, LiveGameLists)

\* The scoring plays a response may hold: distinct events, in order.
GoalLists ==
    {s \in UNION {[1..n -> Goals] : n \in 0..MaxGoals} :
        \A i, j \in DOMAIN s : i < j => s[i].eventId < s[j].eventId}

\* The fetch of a game's play-by-play failed (line 571-573).
EvGameError(gameId) == Ev("gameError", <<gameId>>, "", NoText)

\* A failed fetch that ends the whole cycle (a try block around the loop).
PbpReturnsAbortsCycle(c) ==
    /\ cyc[c].pc = "pbp"
    /\ \E ok \in BOOLEAN : \E goals \in GoalLists :
          Apply(c, IF ok
                   THEN RunGoals(cyc[c], goals, previousScores, postingInProgress, <<>>, now)
                   ELSE NextGame([cyc[c] EXCEPT !.games = <<>>], previousScores,
                                 postingInProgress, <<EvGameError(cyc[c].gameId)>>))
    /\ UNCHANGED <<now, ticks, quiets, lastMemoryReset, botPc, nextPoll, goalPosts,
                   corrections, restart>>

\* Lines 557-573: fetchGamePlayByPlay returned, or threw (the game is skipped).
PbpReturnsFrom(c, oks, lists) ==
    /\ cyc[c].pc = "pbp"
    /\ \E ok \in oks : \E goals \in lists :
          Apply(c, IF ok
                   THEN RunGoals(cyc[c], goals, previousScores, postingInProgress, <<>>, now)
                   ELSE NextGame(cyc[c], previousScores, postingInProgress,
                                 <<EvGameError(cyc[c].gameId)>>))
    /\ UNCHANGED <<now, ticks, quiets, lastMemoryReset, botPc, nextPoll, goalPosts,
                   corrections, restart>>

PbpReturns(c) == PbpReturnsFrom(c, BOOLEAN, GoalLists)

\* Line 327: the settle delay is over; line 330 starts the verification fetch.
SettleDone(c) ==
    /\ cyc[c].pc = "settle"
    /\ now >= cyc[c].wake
    /\ cyc' = [cyc EXCEPT ![c].pc = "verify"]
    /\ events' = <<>>
    /\ UNCHANGED <<now, ticks, quiets, previousScores, postingInProgress, lastMemoryReset,
                   botPc, nextPoll, goalPosts, corrections, restart>>

\* Lines 330-376: the verification fetch returned or threw.
VerifyOutcomes == {"present", "vanished", "throw"}

VerifyReturnsAs(c, outcomes) ==
    /\ cyc[c].pc = "verify"
    /\ \E outcome \in outcomes :
          Apply(c, AfterVerify(cyc[c], outcome, previousScores, postingInProgress, now))
    /\ UNCHANGED <<now, ticks, quiets, lastMemoryReset, botPc, nextPoll, goalPosts,
                   corrections, restart>>

VerifyReturns(c) == VerifyReturnsAs(c, VerifyOutcomes)

\* A publish that renews the login after every response without a uri.
PostReturnsRenewsEveryTime(c) ==
    /\ cyc[c].pc = "post"
    /\ \E outcome \in {"uri", "nouri", "throw"} :
          /\ IF outcome = "nouri"
             THEN /\ cyc' = [cyc EXCEPT ![c].pc = "renew"]
                  /\ events' = <<Ev("nouri", cyc[c].key, PublishKind(cyc[c].path),
                                    cyc[c].text)>>
                  /\ UNCHANGED <<previousScores, postingInProgress>>
             ELSE Apply(c, AfterPost(cyc[c], outcome, previousScores, postingInProgress, now))
          /\ goalPosts' = NoteGoalPost(goalPosts, cyc[c], outcome, now)
          /\ corrections' = NoteCorrection(corrections, cyc[c], outcome)
    /\ UNCHANGED <<now, ticks, quiets, lastMemoryReset, botPc, nextPoll, restart>>

PostOutcomes == {"uri", "nouri", "throw"}

\* Lines 339-347, 384-392, 435-443: bot.post returned or threw.  A first
\* response without a uri starts renewBotConnection.

PostReturnsAs(c, outcomes) ==
    /\ cyc[c].pc = "post"
    /\ \E outcome \in outcomes :
          /\ IF outcome = "nouri" /\ cyc[c].stage = 1
             THEN /\ cyc' = [cyc EXCEPT ![c].pc = "renew"]
                  /\ events' = <<Ev("nouri", cyc[c].key, PublishKind(cyc[c].path),
                                    cyc[c].text)>>
                  /\ UNCHANGED <<previousScores, postingInProgress>>
             ELSE Apply(c, AfterPost(cyc[c], outcome, previousScores, postingInProgress, now))
          /\ goalPosts' = NoteGoalPost(goalPosts, cyc[c], outcome, now)
          /\ corrections' = NoteCorrection(corrections, cyc[c], outcome)
    /\ UNCHANGED <<now, ticks, quiets, lastMemoryReset, botPc, nextPoll, restart>>

PostReturns(c) == PostReturnsAs(c, PostOutcomes)

\* Lines 221-234, 344-346: renewBotConnection returned true (the post is made
\* again) or false.
RenewReturns(c) ==
    /\ cyc[c].pc = "renew"
    /\ \E ok \in BOOLEAN :
          IF ok
          THEN /\ cyc' = [cyc EXCEPT ![c].pc = "post", ![c].stage = 2]
               /\ events' = <<Ev("call", cyc[c].key, PublishKind(cyc[c].path), cyc[c].text)>>
               /\ UNCHANGED <<previousScores, postingInProgress>>
          ELSE Apply(c, AfterPost(cyc[c], "nouri", previousScores, postingInProgress, now))
    /\ UNCHANGED <<now, ticks, quiets, lastMemoryReset, botPc, nextPoll, goalPosts,
                   corrections, restart>>

\* Lines 363, 408: the post delay is over; the invocation returns.
PostDelayDone(c) ==
    /\ cyc[c].pc = "postdelay"
    /\ now >= cyc[c].wake
    /\ Apply(c, Finish(cyc[c], previousScores, postingInProgress, <<>>, now))
    /\ UNCHANGED <<now, ticks, quiets, lastMemoryReset, botPc, nextPoll, goalPosts,
                   corrections, restart>>

\* A timer that is due fires before time moves on.
NoDueTimer ==
    /\ \A c \in Cycles : cyc[c].pc \in {"settle", "postdelay"} => now < cyc[c].wake
    /\ now < nextPoll

\* The two fetches of pollGames answer within the tick they were sent in; the
\* verification fetch, bot.post and bot.login take any time.
NoPollFetchPending == \A c \in Cycles : cyc[c].pc \notin {"schedule", "pbp"}

TickUpTo(max) ==
    /\ botPc = "polling"
    /\ ticks < max
    /\ NoDueTimer
    /\ NoPollFetchPending
    /\ now' = now + 1
    /\ ticks' = ticks + 1
    /\ events' = <<>>
    /\ UNCHANGED <<quiets, previousScores, postingInProgress, lastMemoryReset, botPc,
                   nextPoll, cyc, goalPosts, corrections, restart>>

Tick == TickUpTo(MaxTicks)

\* A quiet period: QuietPolls polls in a row, one per interval, that find no
\* live game while nothing is in flight, and the wait for the poll after them.
\* The first of them that falls on a new Eastern day does the clear.
QuietPolls == QUIET_TICKS \div POLL_INTERVAL

Quiet ==
    /\ botPc = "polling"
    /\ quiets < MaxQuiet
    /\ \A c \in Cycles : cyc[c].pc = "idle"
    /\ now <= nextPoll
    /\ LET times == {nextPoll + i * POLL_INTERVAL : i \in 0..(QuietPolls - 1)}
           rolled == {p \in times : ~isTodayAt(lastMemoryReset, p)}
           last == nextPoll + (QuietPolls - 1) * POLL_INTERVAL
       IN  /\ now' = last + POLL_INTERVAL
           /\ nextPoll' = nextPoll + QuietPolls * POLL_INTERVAL
           /\ previousScores' = IF rolled = {} THEN previousScores ELSE Empty
           /\ lastMemoryReset' =
                 IF rolled = {} THEN lastMemoryReset
                 ELSE CHOOSE p \in rolled : \A q \in rolled : p <= q
           /\ events' = (IF rolled = {} THEN <<>> ELSE <<Ev("clear", NoKey, "", NoText)>>)
                         \o <<EvDone(last)>>
    /\ quiets' = quiets + 1
    /\ UNCHANGED <<ticks, postingInProgress, botPc, cyc, goalPosts, corrections, restart>>

Next ==
    \/ LoginOk
    \/ \E c \in Cycles : PollTimer(c)
    \/ PollNoLiveGame
    \/ \E c \in Cycles : ScheduleReturns(c)
    \/ \E c \in Cycles : PbpReturns(c)
    \/ \E c \in Cycles : SettleDone(c)
    \/ \E c \in Cycles : VerifyReturns(c)
    \/ \E c \in Cycles : PostReturns(c)
    \/ \E c \in Cycles : RenewReturns(c)
    \/ \E c \in Cycles : PostDelayDone(c)
    \/ Tick
    \/ Quiet

Spec == Init /\ [][Next]_vars

\* ------------------------------------------------------------- the claims
Observed(evs) == {i \in DOMAIN evs : evs[i].ev = "observe"}
Called(evs, key) == \E i \in DOMAIN evs : evs[i].ev = "call" /\ evs[i].key = key
CalledAs(evs, key, kind) ==
    \E i \in DOMAIN evs : evs[i].ev = "call" /\ evs[i].key = key /\ evs[i].kind = kind
ConfirmedAs(evs, key, kind) ==
    \E i \in DOMAIN evs : evs[i].ev = "confirm" /\ evs[i].key = key /\ evs[i].kind = kind
Happened(evs, ev, key) == \E i \in DOMAIN evs : evs[i].ev = ev /\ evs[i].key = key

\* Two times of the same Eastern day that are at most the retention age apart.
WithinRetention(t1, t2) ==
    /\ isTodayAt(t1, t2)
    /\ getAgeInMinutesAt(t1, t2) <= MAX_AGE_MINUTES

\* A record that the scan of an observation of goal would match: same game,
\* posted, dated today, same period, clock minute, scorer and raw score.
MatchesPostedToday(rec, k, gameId, goal, t) ==
    /\ k[1] = gameId
    /\ rec.posted
    /\ EasternDay(rec.timestamp) = EasternDay(t)
    /\ rec.goal.period = goal.period
    /\ rec.goal.time[1] = goal.time[1]
    /\ rec.goal.scorer = goal.scorer
    /\ rec.goal.rawScores = goal.rawScores

\* A record past the retention limit at time t.
PastRetention(rec, t) ==
    \/ getAgeInMinutesAt(rec.timestamp, t) > MAX_AGE_MINUTES
    \/ EasternDay(rec.timestamp) # EasternDay(t)

\* C1: no identity key gets two confirmed 'GOAL!' publishes on the same day
\* within the retention age of each other.
C1_AtMostOneGoalPost ==
    \A k \in DOMAIN goalPosts :
        \A i, j \in DOMAIN goalPosts[k] :
            i < j => ~WithinRetention(goalPosts[k][i], goalPosts[k][j])

\* C3: at most one handleGoalUpdate invocation per key is past the lock.
C3_OneWorkflowPerKey ==
    \A c, d \in Cycles :
        (c # d /\ cyc[c].pc \in WorkflowPcs /\ cyc[d].pc \in WorkflowPcs)
            => cyc[c].key # cyc[d].key

\* An entry of events: an observation that got past the posting lock.
PastLock(e) == e.ev = "observe" /\ e.kind # "LOCKED"

\* The records, as the observation found them, that the scan would match.
MatchedBy(e, t) ==
    {k \in DOMAIN e.before : MatchesPostedToday(e.before[k], k, e.key[1], e.goal, t)}

\* The observation was classified DUPLICATE and did nothing.
NoEffect(evs, e) ==
    /\ e.kind = "DUPLICATE"
    /\ ~Called(evs, e.key)
    /\ e.after = e.before

\* The record under the observation's own key was past the retention limit.
OwnRecordStale(e, t) ==
    /\ e.key \in DOMAIN e.before
    /\ PastRetention(e.before[e.key], t)

\* C2 as stated: an observation matching a posted record of the same game that
\* is dated today is classified DUPLICATE, with no publish call and no record
\* created or modified.
C2_DuplicateAlways ==
    [][\A i \in DOMAIN events' :
          (PastLock(events'[i]) /\ MatchedBy(events'[i], now') # {})
              => NoEffect(events', events'[i])]_vars

\* C2, amended: the same, provided the record under the observation's own key
\* is not past the retention limit (it is evicted before the scan otherwise).
C2_DuplicateUnlessEvicted ==
    [][\A i \in DOMAIN events' :
          (/\ PastLock(events'[i])
           /\ MatchedBy(events'[i], now') # {}
           /\ ~OwnRecordStale(events'[i], now'))
              => NoEffect(events', events'[i])]_vars

\* An observation was classified DUPLICATE against a record that differs from
\* it in the clock seconds.
C2_Witness ==
    \E i \in DOMAIN events :
        /\ events[i].kind = "DUPLICATE"
        /\ \E k \in MatchedBy(events[i], now) :
              events[i].before[k].goal.time # events[i].goal.time

UpdateBranchNeverTaken ==
    \A i \in DOMAIN events : events[i].kind \notin {"UPDATE", "UPDATE_NODIFF"}

\* C5: a record is posted only if a 'GOAL!' publish for its key returned a uri,
\* and a step sets posted only together with that confirmation.
C5_PostedOnlyWhenConfirmed ==
    [][\A k \in DOMAIN previousScores' :
          previousScores'[k].posted =>
              /\ k \in DOMAIN goalPosts'
              /\ (k \in DOMAIN previousScores /\ previousScores[k].posted)
                    \/ ConfirmedAs(events', k, "GOAL")]_vars

\* A publish returned without a uri, or threw, while its record was tracked,
\* and a record has been marked posted.
C5_Witness ==
    /\ \E k \in DOMAIN previousScores : previousScores[k].posted
    /\ \E c \in Cycles : cyc[c].pc = "postdelay" /\ cyc[c].key \in DOMAIN previousScores
          /\ ~previousScores[cyc[c].key].posted

\* The posted, never corrected records, as the observation found them, of the
\* same event as the observation and equal to it in all but the scorer.
ScorerChangedFrom(e, t) ==
    {k \in DOMAIN e.before :
        /\ k[1] = e.key[1]
        /\ e.before[k].posted
        /\ e.before[k].updateCount = 0
        /\ ~PastRetention(e.before[k], t)
        /\ e.before[k].goal.scorer # e.goal.scorer
        /\ [e.before[k].goal EXCEPT !.scorer = e.goal.scorer] = e.goal}

CorrectionCalls(evs) ==
    {j \in DOMAIN evs : evs[j].ev = "call" /\ evs[j].kind = "CORRECTION"}

\* C6: an observation that differs from an announced goal in the scorer only
\* makes exactly one publish call, of 'CORRECTION: Goal now credited to <new>
\* (previously <old>)', and takes the record's updateCount to 1.
C6_ScorerChangeCorrects ==
    [][\A i \in DOMAIN events' :
          PastLock(events'[i]) =>
              \A k \in ScorerChangedFrom(events'[i], now') :
                  /\ Cardinality(CorrectionCalls(events')) = 1
                  /\ \A j \in CorrectionCalls(events') :
                        /\ events'[j].text.head = "CORRECTION: "
                        /\ events'[j].text.note =
                              <<"Goal now credited to ", events'[i].goal.scorer,
                                " (previously ", events'[i].before[k].goal.scorer, ")">>
                  /\ k \in DOMAIN previousScores'
                  /\ previousScores'[k].updateCount = 1]_vars

\* C7: an observation whose exact-key record is posted, below MAX_UPDATES and
\* recorded today enters the correction path; it is not classified DUPLICATE.
C7_ExactKeyBeforeScan ==
    [][\A i \in DOMAIN events' :
          (/\ PastLock(events'[i])
           /\ events'[i].key \in DOMAIN events'[i].before
           /\ UpdateAllowed(events'[i].before[events'[i].key], now')
           /\ ~PastRetention(events'[i].before[events'[i].key], now'))
              => events'[i].kind \in {"UPDATE", "UPDATE_NODIFF"}]_vars

\* A record that was past the retention limit at time t.
StaleAt(rec, t) == rec.timestamp <= t /\ PastRetention(rec, t)

\* C8: when a poll cycle has completed, no record is tracked that was past the
\* retention limit when that cycle started.
C8_StaleGoneAfterCycle ==
    \A i \in DOMAIN events :
        events[i].ev = "cycleDone" =>
            \A k \in DOMAIN previousScores : ~StaleAt(previousScores[k], events[i].at)

\* C9: an observation of a key whose workflow is in its settle delay causes no
\* publish call.
C9_NoPublishDuringSettle ==
    [][\A i \in DOMAIN events' :
          (/\ events'[i].ev = "observe"
           /\ \E c \in Cycles : cyc[c].pc = "settle" /\ cyc[c].key = events'[i].key)
              => ~Called(events', events'[i].key)]_vars

\* C10: a posted record leaves previousScores only by the eviction of its key
\* or by a full clear.
C10_PostedLeavesByEvictionOnly ==
    [][\A k \in DOMAIN previousScores :
          (previousScores[k].posted /\ k \notin DOMAIN previousScores')
              => \/ Happened(events', "evict", k)
                 \/ \E i \in DOMAIN events' : events'[i].ev = "clear"]_vars

\* The keys whose publish attempt of the given path ended, in the step that
\* left evs, without a confirmation.
FailedAs(evs, kind) ==
    {evs[i].key : i \in {j \in DOMAIN evs : evs[j].ev = "fail" /\ evs[j].kind = kind}}

GoalRevisions ==
    {MkGoal(1, "A B (#9)", "", <<"04", "12">>, 1, 1, 0),
     MkGoal(1, "A B (#9)", "E F (#3)", <<"04", "12">>, 1, 1, 0),
     MkGoal(1, "A B (#9)", "", <<"04", "09">>, 1, 1, 0)}

UpdatePathGame == CHOOSE g \in GameIds : TRUE

\* The stores the branch may find: one posted record of the current day,
\* stamped one tick before the observation.
PostedStores(t) ==
    {Put(Empty, createGoalKey(UpdatePathGame, g),
         [NewRecord(g, t - 1) EXCEPT !.posted = TRUE, !.updateCount = n]) :
        g \in GoalRevisions, n \in 0..MAX_UPDATES}

InitUpdatePath ==
    /\ now \in StartTimes
    /\ ticks = 0
    /\ quiets = 0
    /\ previousScores \in PostedStores(now)
    /\ postingInProgress = Empty
    /\ lastMemoryReset = now
    /\ botPc = "polling"
    /\ restart = NoRestart
    /\ nextPoll = now + POLL_INTERVAL
    /\ cyc = [c \in Cycles |-> Idle]
    /\ goalPosts = Empty
    /\ corrections = Empty
    /\ events = <<>>

\* handleGoalUpdate without its scan, called for one observation.
ObserveExact(c) ==
    /\ cyc[c].pc = "idle"
    /\ \A d \in Cycles : d < c => cyc[d].pc # "idle"
    /\ \E goal \in GoalRevisions :
          LET r == EnterWith(FALSE, previousScores, postingInProgress, UpdatePathGame,
                             goal, now)
              loc == [Idle EXCEPT !.start = now, !.gameId = UpdatePathGame]
          IN  Apply(c, IF r.pc = "idle"
                       THEN NextGame(loc, r.ps, r.locks, r.evs)
                       ELSE [loc |-> [loc EXCEPT !.pc = r.pc, !.goal = goal,
                                                 !.key = createGoalKey(UpdatePathGame, goal),
                                                 !.hnow = now, !.path = r.path,
                                                 !.stage = IF r.pc = "post" THEN 1 ELSE 0,
                                                 !.wake = r.wake, !.text = r.text,
                                                 !.countAtEntry =
                                                     CountAtEntry(previousScores,
                                                         createGoalKey(UpdatePathGame, goal),
                                                         r.path)],
                             ps |-> r.ps, locks |-> r.locks, evs |-> r.evs])
    /\ UNCHANGED <<now, ticks, quiets, lastMemoryReset, botPc, nextPoll, goalPosts,
                   corrections, restart>>

NextUpdatePath ==
    \/ \E c \in Cycles : ObserveExact(c)
    \/ \E c \in Cycles : PostReturns(c)
    \/ \E c \in Cycles : RenewReturns(c)

SpecUpdatePath == InitUpdatePath /\ [][NextUpdatePath]_vars

\* An observation that is on the update path and differs from the tracked
\* goal in none of scorer, assists, period and score.
OnUpdatePathNoDiff(e, t) ==
    /\ PastLock(e)
    /\ e.key \in DOMAIN e.before
    /\ UpdateAllowed(e.before[e.key], t)
    /\ getUpdatedFields(e.goal, e.before[e.key].goal) = <<>>

OtherGame == <<2, 0, 2>>

TwoGameLists ==
    LiveGameLists \cup {<<g, OtherGame>> : g \in GameIds}
                  \cup {<<OtherGame, g>> : g \in GameIds}

ScheduleReturnsTwoGames(c) == ScheduleReturnsFrom(c, TwoGameLists)

NextTwoGames ==
    \/ LoginOk
    \/ PollNoLiveGame
    \/ \E c \in Cycles : ScheduleReturnsTwoGames(c)
    \/ \E c \in Cycles : PbpReturns(c)
    \/ \E c \in Cycles : SettleDone(c)
    \/ \E c \in Cycles : VerifyReturns(c)
    \/ \E c \in Cycles : PostReturns(c)
    \/ \E c \in Cycles : RenewReturns(c)
    \/ \E c \in Cycles : PostDelayDone(c)
    \/ Tick

SpecTwoGames == Init /\ [][NextTwoGames]_vars

\* The games whose play-by-play fetch failed in the step that left evs.
FailedGames(evs) ==
    {evs[i].key[1] : i \in {j \in DOMAIN evs : evs[j].ev = "gameError"}}

\* The slot c fetched the play-by-play of game g, and the step is its return.
FetchOf(c, g) == cyc[c].pc = "pbp" /\ cyc[c].gameId = g /\ cyc'[c] # cyc[c]

\* C13: a failed play-by-play fetch of one game creates no record and
\* publishes nothing, and the cycle goes on with the next live game.
C13_GameErrorSkipsGameOnly ==
    [][\A g \in FailedGames(events') : \A c \in Cycles :
          FetchOf(c, g) =>
              /\ previousScores' = previousScores
              /\ \A i \in DOMAIN events' : events'[i].ev \notin {"observe", "call"}
              /\ IF cyc[c].games = <<>>
                 THEN cyc'[c].pc = "idle"
                 ELSE cyc'[c].pc = "pbp" /\ cyc'[c].gameId = Head(cyc[c].games)
                      /\ cyc'[c].games = Tail(cyc[c].games)]_vars

\* The fetch of one game failed and the cycle is fetching the other game.
C13_Witness ==
    /\ FailedGames(events) # {}
    /\ \E c \in Cycles : cyc[c].pc = "pbp" /\ cyc[c].gameId \notin FailedGames(events)

\* The step starts a poll cycle at the current time (LoginOk, PollTimer,
\* PollNoLiveGame).
PollStarts == nextPoll' # nextPoll /\ now' = now

\* The step is a quiet period; its last poll starts one interval before it ends.
QuietStep == nextPoll' # nextPoll /\ now' # now

\* C14: previousScores is empty while startBot has not begun polling, and a
\* poll cycle that starts on another Eastern day than the last reset empties
\* previousScores and records the reset time in the step that starts it,
\* before any goal is handled.
C14_ClearAtStartAndNewDay ==
    [][/\ botPc = "login" => previousScores = Empty
       /\ (PollStarts /\ ~isTodayAt(lastMemoryReset, now))
             => /\ previousScores' = Empty
                /\ lastMemoryReset' = now
                /\ \A i \in DOMAIN events' : events'[i].ev # "observe"
       /\ (QuietStep /\ ~isTodayAt(lastMemoryReset, now' - POLL_INTERVAL))
             => /\ previousScores' = Empty
                /\ isTodayAt(lastMemoryReset', now' - POLL_INTERVAL)]_vars

\* A goal was announced before midnight and the poll after midnight has just
\* emptied the store.
C14_Witness ==
    /\ \E i \in DOMAIN events : events[i].ev = "clear"
    /\ goalPosts # Empty
    /\ previousScores = Empty
    /\ lastMemoryReset = now

\* pc values of the settle/verify/publish sequence of a new goal.
NewGoalSequencePcs == {"settle", "verify", "post", "renew"}

\* C15: an observation classified NEW leaves a record (posted = false,
\* updateCount = 0) behind before its settle delay, and no observation of a key
\* whose new-goal workflow is in its settle/verify/publish sequence is
\* classified NEW.
C15_RecordClaimsTheSlot ==
    [][\A i \in DOMAIN events' :
          events'[i].ev = "observe" =>
              /\ events'[i].kind = "NEW" =>
                    /\ events'[i].key \in DOMAIN events'[i].after
                    /\ ~events'[i].after[events'[i].key].posted
                    /\ events'[i].after[events'[i].key].updateCount = 0
              /\ (\E c \in Cycles : /\ cyc[c].key = events'[i].key
                                    /\ cyc[c].path = "new"
                                    /\ cyc[c].pc \in NewGoalSequencePcs)
                    => events'[i].kind # "NEW"]_vars

\* The keys whose verification fetch returned with the given outcome in the
\* step that left evs.
VerifiedAs(evs, outcome) ==
    {evs[i].key : i \in {j \in DOMAIN evs : evs[j].ev = "verify" /\ evs[j].kind = outcome}}

\* C16: when the re-fetched play-by-play no longer holds the goal's event, the
\* key's record is deleted and no publish call is made.
C16_VanishedDeletesWithoutPublish ==
    [][\A k \in VerifiedAs(events', "vanished") :
          /\ k \notin DOMAIN previousScores'
          /\ ~Called(events', k)
          /\ \A c \in Cycles :
                (cyc[c].pc = "verify" /\ cyc[c].key = k /\ cyc'[c] # cyc[c])
                    => ~(cyc'[c].pc \in WorkflowPcs /\ cyc'[c].key = k)]_vars

\* The event vanished, and the unposted record of the key was deleted.
C16_Witness ==
    /\ VerifiedAs(events, "vanished") # {}
    /\ \E i \in DOMAIN events :
          /\ events[i].ev = "delete"
          /\ events[i].kind = "unposted"
          /\ events[i].key \in VerifiedAs(events, "vanished")
    /\ previousScores = Empty

\* The invocation in slot c made a publish call in this step.
CallsIn(c) ==
    /\ cyc'[c] # cyc[c]
    /\ cyc'[c].pc = "post"
    /\ Called(events', cyc'[c].key)

\* C17: a publish attempt makes at most two publish calls and at most one
\* login renewal; the renewal follows a first response without confirmation,
\* and the second call follows a successful renewal.
C17_OneRenewalAndRetry ==
    [][\A c \in Cycles :
          /\ CallsIn(c) => cyc'[c].stage \in {1, 2}
          /\ (CallsIn(c) /\ cyc'[c].stage = 2)
                => /\ cyc[c].pc = "renew"
                   /\ cyc[c].key = cyc'[c].key
          /\ (cyc'[c] # cyc[c] /\ cyc'[c].pc = "renew")
                => /\ cyc[c].pc = "post"
                   /\ cyc[c].stage = 1
                   /\ cyc[c].key = cyc'[c].key
                   /\ \E i \in DOMAIN events' :
                         events'[i].ev = "nouri" /\ events'[i].key = cyc[c].key
          /\ (cyc'[c] # cyc[c] /\ cyc[c].pc = "renew" /\ cyc'[c].pc = "post")
                => cyc'[c].stage = 2
          /\ (cyc'[c] # cyc[c] /\ cyc[c].pc = "post" /\ cyc[c].stage = 2)
                => /\ cyc'[c].pc # "renew"
                   /\ cyc'[c].pc = "post" => cyc'[c].stage = 1]_vars

\* The second publish call of an attempt returned without confirmation, and
\* the attempt ended there.
C17_Witness ==
    \E c \in Cycles :
        /\ cyc[c].pc = "postdelay"
        /\ cyc[c].stage = 2
        /\ FailedAs(events, "GOAL") # {}

\* Two confirmed 'GOAL!' publishes of one provider event of one game, on the
\* same Eastern day: under one key, or under two keys.
SameEvent(k1, k2) == k1[1] = k2[1] /\ k1[2] = k2[2]

\* C18: a provider event of a game gets at most one confirmed 'GOAL!' publish
\* per day, whatever the provider revises between the observations.
C18_OneGoalPostPerEvent ==
    \A k1, k2 \in DOMAIN goalPosts :
        SameEvent(k1, k2) =>
            \A i \in DOMAIN goalPosts[k1] : \A j \in DOMAIN goalPosts[k2] :
                (k1 # k2 \/ i # j) => ~isTodayAt(goalPosts[k1][i], goalPosts[k2][j])

\* The invocation that slot c was awaiting in returned in this step.
ReturnsIn(c) ==
    /\ cyc[c].pc \in WorkflowPcs
    /\ cyc'[c] # cyc[c]
    /\ ~(cyc'[c].pc \in WorkflowPcs /\ cyc'[c].key = cyc[c].key)

\* The kinds of observation that pass the lock and return without awaiting.
ImmediateKinds == {"DUPLICATE", "SKIP", "UPDATE_NODIFF"}

\* C19: when an invocation that acquired the key's lock returns, the key has
\* no lock: after an await (announcement posted, publish failed, event
\* vanished, verification error, retry) and without one (duplicate, skip).
C19_LockReleasedOnReturn ==
    [][/\ \A c \in Cycles :
             ReturnsIn(c) => cyc[c].key \notin DOMAIN postingInProgress'
       /\ \A i \in DOMAIN events' :
             (events'[i].ev = "observe" /\ events'[i].kind \in ImmediateKinds)
                 => events'[i].key \notin DOMAIN postingInProgress']_vars

\* A verification that threw has just ended its invocation, and the key,
\* locked until then, has no lock.
C19_Witness ==
    /\ VerifiedAs(events, "throw") # {}
    /\ \A k \in VerifiedAs(events, "throw") : k \notin DOMAIN postingInProgress
    /\ \A c \in Cycles : cyc[c].pc \notin WorkflowPcs

\* Slot d is awaiting in a workflow that holds the lock of its key: the lock
\* in the map is the one it set when it entered.
HoldsLock(d) ==
    /\ cyc[d].pc \in WorkflowPcs
    /\ cyc[d].key \in DOMAIN postingInProgress
    /\ postingInProgress[cyc[d].key] = cyc[d].hnow

\* C20: the return of a workflow leaves in place the lock that a later
\* workflow of the same key holds.
C20_ReleaseOnlyOwnLock ==
    [][\A c, d \in Cycles :
          (/\ c # d
           /\ ReturnsIn(c)
           /\ HoldsLock(d)
           /\ cyc'[d] = cyc[d]
           /\ cyc[d].key = cyc[c].key
           /\ cyc[d].hnow > cyc[c].hnow)
              => /\ cyc[d].key \in DOMAIN postingInProgress'
                 /\ postingInProgress'[cyc[d].key] = cyc[d].hnow]_vars

\* The keys whose record was evicted in the step that left evs.
EvictedIn(evs) ==
    {evs[i].key : i \in {j \in DOMAIN evs : evs[j].ev = "evict"}}

\* C21: a record that is posted stays posted for as long as it is in
\* previousScores.
C21_PostedStaysPosted ==
    [][\A k \in DOMAIN previousScores \cap DOMAIN previousScores' :
          (previousScores[k].posted /\ k \notin EvictedIn(events'))
              => previousScores'[k].posted]_vars

\* The kinds of observation that pass the lock and go on to await.
AwaitingKinds == {"NEW", "RETRY", "UPDATE"}

\* C22: an observation of a locked key made more than 60 s after the lock was
\* taken overrides the lock and acquires it; one made within 60 s is refused
\* and changes neither the lock nor the store.
C22_StaleLockOverridden ==
    [][\A i \in DOMAIN events' :
          (events'[i].ev = "observe" /\ events'[i].key \in DOMAIN postingInProgress)
              => LET k == events'[i].key
                     age == now' - postingInProgress[k]
                 IN  IF age > LOCK_MAX_AGE
                     THEN /\ events'[i].kind # "LOCKED"
                          /\ events'[i].kind \in AwaitingKinds
                                => /\ k \in DOMAIN postingInProgress'
                                   /\ postingInProgress'[k] = now'
                          /\ events'[i].kind \in ImmediateKinds
                                => k \notin DOMAIN postingInProgress'
                     ELSE /\ events'[i].kind = "LOCKED"
                          /\ events'[i].after = events'[i].before
                          /\ k \in DOMAIN postingInProgress'
                          /\ postingInProgress'[k] = postingInProgress[k]]_vars

\* A second workflow holds the lock of a key whose first workflow, entered
\* more than 60 s earlier, has not returned.
C22_Witness ==
    \E c, d \in Cycles :
        /\ c # d
        /\ cyc[c].pc \in WorkflowPcs
        /\ HoldsLock(d)
        /\ cyc[c].key = cyc[d].key
        /\ cyc[d].hnow - cyc[c].hnow > LOCK_MAX_AGE

\* ------------------------------------------ the retry of a failed publish
\* The program under the premises of the retry guarantee.  The provider has
\* one goal to report, and reports no other.  From GoodFrom ticks after the
\* start, every poll that has a free slot finds the game live and the goal in
\* its play-by-play, the verification fetch finds the play, and bot.post
\* returns a uri.  Before that, fetches may fail or come back empty and
\* publishes may throw or return no uri.  Pending fetches, publishes and
\* timers complete (weak fairness).
GoodFrom == 4
RetryHorizon == 12

TrackedGame == CHOOSE g \in GameIds : TRUE
TrackedGoal == MkGoal(1, "A B (#9)", "", <<"04", "12">>, 1, 1, 0)
TrackedKey == createGoalKey(TrackedGame, TrackedGoal)

Good == ticks >= GoodFrom

PollNoLiveGameRetry ==
    /\ ~Good \/ \A c \in Cycles : cyc[c].pc # "idle"
    /\ PollNoLiveGame

ScheduleReturnsRetry(c) ==
    IF Good
    THEN /\ cyc[c].pc = "schedule"
         /\ Apply(c, NextGame([cyc[c] EXCEPT !.games = <<TrackedGame>>], previousScores,
                              postingInProgress, <<>>))
         /\ UNCHANGED <<now, ticks, quiets, lastMemoryReset, botPc, nextPoll, goalPosts,
                        corrections, restart>>
    ELSE ScheduleReturns(c)

PbpReturnsRetry(c) ==
    IF Good
    THEN PbpReturnsFrom(c, {TRUE}, {<<TrackedGoal>>})
    ELSE PbpReturnsFrom(c, BOOLEAN, {<<>>, <<TrackedGoal>>})

VerifyReturnsRetry(c) ==
    IF Good THEN VerifyReturnsAs(c, {"present"}) ELSE VerifyReturns(c)

PostReturnsRetry(c) ==
    IF Good THEN PostReturnsAs(c, {"uri"}) ELSE PostReturns(c)

NextRetry ==
    \/ LoginOk
    \/ \E c \in Cycles : PollTimer(c)
    \/ PollNoLiveGameRetry
    \/ \E c \in Cycles : ScheduleReturnsRetry(c)
    \/ \E c \in Cycles : PbpReturnsRetry(c)
    \/ \E c \in Cycles : SettleDone(c)
    \/ \E c \in Cycles : VerifyReturnsRetry(c)
    \/ \E c \in Cycles : PostReturnsRetry(c)
    \/ \E c \in Cycles : RenewReturns(c)
    \/ \E c \in Cycles : PostDelayDone(c)
    \/ TickUpTo(RetryHorizon)

SpecRetry == Init /\ [][NextRetry]_vars /\ WF_vars(NextRetry)

TrackedPosted ==
    /\ TrackedKey \in DOMAIN previousScores
    /\ previousScores[TrackedKey].posted

ConfirmedKeys(evs, kind) ==
    {evs[i].key : i \in {j \in DOMAIN evs : evs[j].ev = "confirm" /\ evs[j].kind = kind}}

\* C24: a confirmed 'GOAL!' publish leaves the key's record in previousScores
\* with posted = true.
C24_ConfirmedLeavesPostedRecord ==
    [][\A k \in ConfirmedKeys(events', "GOAL") :
          /\ k \in DOMAIN previousScores'
          /\ previousScores'[k].posted]_vars

\* An entry of events: an observation at time t that got the lock and found the
\* record of its own key unposted (a record past the retention age is dropped
\* before the lookup, so it is not found).
FoundUnposted(e, t) ==
    /\ PastLock(e)
    /\ e.key \in DOMAIN e.before
    /\ ~e.before[e.key].posted
    /\ ~ShouldEvict(e.before, e.key, t)

\* C25: an observation that gets the lock and finds its key's record unposted
\* makes the publish call in the same step, with no settle delay and no
\* verification fetch, and the record becomes posted only with a confirmation.
C25_UnpostedRetriedAtOnce ==
    [][/\ \A i \in DOMAIN events' :
             FoundUnposted(events'[i], now')
                 => /\ events'[i].kind = "RETRY"
                    /\ CalledAs(events', events'[i].key, "GOAL")
                    /\ \E c \in Cycles :
                          /\ cyc'[c] # cyc[c]
                          /\ cyc'[c].pc = "post"
                          /\ cyc'[c].key = events'[i].key
       /\ \A c \in Cycles :
             (cyc[c].path = "retry" /\ cyc[c].pc \in WorkflowPcs
              /\ cyc[c].key \in DOMAIN previousScores /\ cyc[c].key \in DOMAIN previousScores'
              /\ ~previousScores[cyc[c].key].posted /\ previousScores'[cyc[c].key].posted)
                 => ConfirmedAs(events', cyc[c].key, "GOAL")]_vars

\* The slots whose correction publish failed for good in this step: bot.post
\* threw, or the attempt ended without a uri.
CorrectionFailsIn(c) ==
    /\ cyc[c].pc \in {"post", "renew"}
    /\ cyc[c].path = "update"
    /\ cyc'[c] # cyc[c]
    /\ cyc[c].key \in FailedAs(events', "CORRECTION")

CorrectionConfirmedIn(c) ==
    /\ cyc[c].pc = "post"
    /\ cyc[c].path = "update"
    /\ cyc'[c] # cyc[c]
    /\ cyc[c].key \in ConfirmedKeys(events', "CORRECTION")

\* C27: on the update path, a confirmed correction leaves updateCount one
\* above the value the observation found, the observed goal as the tracked
\* goal, and the invocation's time as the record's timestamp.
C27_ConfirmedCorrectionUpdatesRecord ==
    [][\A c \in Cycles :
          (CorrectionConfirmedIn(c) /\ cyc[c].key \in DOMAIN previousScores)
              => LET k == cyc[c].key
                 IN  /\ k \in DOMAIN previousScores'
                     /\ getUpdatedFields(cyc[c].goal, previousScores[k].goal) # <<>>
                     /\ previousScores'[k].updateCount = cyc[c].countAtEntry + 1
                     /\ previousScores'[k].goal = cyc[c].goal
                     /\ previousScores'[k].timestamp = cyc[c].hnow]_vars

\* A correction has just been confirmed: the tracked goal has the revised
\* assists and the record is stamped with the current time.
C27_Witness ==
    \E k \in ConfirmedKeys(events, "CORRECTION") :
        /\ k \in DOMAIN previousScores
        /\ previousScores[k].goal.assists # ""
        /\ previousScores[k].timestamp = now
        /\ previousScores[k].updateCount = MAX_UPDATES

\* An entry of events: an observation at time t that got the lock and whose
\* goal differs in the clock only from the tracked goal of its key's posted
\* record (a record within the retention age: an older one is dropped before
\* any comparison).
ClockOnlyChange(e, t) ==
    /\ PastLock(e)
    /\ e.key \in DOMAIN e.before
    /\ e.before[e.key].posted
    /\ ~ShouldEvict(e.before, e.key, t)
    /\ e.goal.time # e.before[e.key].goal.time
    /\ [e.goal EXCEPT !.time = e.before[e.key].goal.time] = e.before[e.key].goal

\* C28: an observation that differs from the tracked goal of a posted record
\* in its clock only makes no publish call and leaves the tracked goal in
\* place.
C28_ClockChangeNoCorrection ==
    [][\A i \in DOMAIN events' :
          ClockOnlyChange(events'[i], now')
              => LET k == events'[i].key
                 IN  /\ ~Called(events', k)
                     /\ k \in DOMAIN events'[i].after
                     /\ events'[i].after[k].goal = events'[i].before[k].goal
                     /\ k \in DOMAIN previousScores'
                     /\ previousScores'[k].goal = events'[i].before[k].goal]_vars

\* An observation with another clock value has just been handled on the update
\* path, with corrections still allowed for the record.
C28_Witness ==
    \E i \in DOMAIN events :
        /\ ClockOnlyChange(events[i], now)
        /\ events[i].kind = "UPDATE_NODIFF"

\* --------------------------------------------------- startBot's restart loop
\* startBot (lines 522-613) with polls whose schedule fetch finds no live game,
\* fails with an error the catch block swallows, or fails with an error that
\* has an outage signature and is rethrown (lines 575-583).
RESTART_DELAY == 60000 \div MS_PER_TICK

\* The interval timers set so far whose callbacks still run.
ActiveTimers == (IF nextPoll = 0 THEN 0 ELSE 1) + Len(restart.oldTimers)

EvOutage(origin) == Ev("outage", NoKey, origin, NoText)

\* Lines 524-603: attemptLogin succeeded; setInterval makes a new timer (the
\* pollInterval of an earlier iteration is not cleared) and the initial poll
\* is started and awaited.
LoginRestart(c) ==
    /\ botPc = "login"
    /\ botPc' = "polling"
    /\ nextPoll' = now + POLL_INTERVAL
    /\ restart' = [restart EXCEPT
                      !.awaited = c,
                      !.oldTimers = IF nextPoll = 0 THEN @ ELSE Append(@, nextPoll)]
    /\ BeginPoll(c)
    /\ UNCHANGED <<now, ticks, quiets, postingInProgress, goalPosts, corrections>>

\* Line 587: the timer of the current iteration calls pollGames.
CurrentTimerFires(c) ==
    /\ botPc # "exited"
    /\ nextPoll # 0
    /\ now >= nextPoll
    /\ nextPoll' = nextPoll + POLL_INTERVAL
    /\ BeginPoll(c)
    /\ UNCHANGED <<now, ticks, quiets, postingInProgress, botPc, restart, goalPosts,
                   corrections>>

\* Line 587: the timer of an earlier iteration calls that iteration's pollGames.
OldTimerFires(c) ==
    /\ botPc # "exited"
    /\ \E i \in DOMAIN restart.oldTimers :
          /\ now >= restart.oldTimers[i]
          /\ restart' = [restart EXCEPT !.oldTimers[i] = @ + POLL_INTERVAL]
    /\ BeginPoll(c)
    /\ UNCHANGED <<now, ticks, quiets, postingInProgress, botPc, nextPoll, goalPosts,
                   corrections>>

\* The outcomes of a promise rejection that nothing handles: the runtime only
\* warns, or ends the process.
RejectionFates == {"warned", "exited"}

\* Lines 545-583, 603-612: the schedule fetch of a poll returned.  "quiet": no
\* live game, or an error the catch block swallows.  "outage": the error is
\* rethrown; startBot's catch sees it only when it awaits this poll.
ScheduleReturnsRestart(c) ==
    /\ botPc # "exited"
    /\ cyc[c].pc = "schedule"
    /\ cyc' = [cyc EXCEPT ![c] = Idle]
    /\ \E outcome \in {"quiet", "outage"} : \E fate \in RejectionFates :
          CASE outcome = "quiet" ->
                  /\ events' = <<EvDone(cyc[c].start)>>
                  /\ restart' = IF restart.awaited = c
                                THEN [restart EXCEPT !.awaited = 0] ELSE restart
                  /\ botPc' = botPc
            [] outcome = "outage" /\ restart.awaited = c ->
                  /\ events' = <<EvOutage("initial")>>
                  /\ restart' = [restart EXCEPT !.awaited = 0,
                                                !.wake = now + RESTART_DELAY]
                  /\ botPc' = "cooldown"
            [] OTHER ->
                  /\ events' = <<EvOutage("timer")>>
                  /\ restart' = restart
                  /\ botPc' = IF fate = "exited" THEN "exited" ELSE botPc
    /\ UNCHANGED <<now, ticks, quiets, previousScores, postingInProgress, lastMemoryReset,
                   nextPoll, goalPosts, corrections>>

\* Lines 608-612: the cool-down is over; the loop starts again.
CooldownDone ==
    /\ botPc = "cooldown"
    /\ now >= restart.wake
    /\ botPc' = "login"
    /\ restart' = [restart EXCEPT !.wake = 0]
    /\ events' = <<>>
    /\ UNCHANGED <<now, ticks, quiets, previousScores, postingInProgress, lastMemoryReset,
                   nextPoll, cyc, goalPosts, corrections>>

NoDueRestartTimer ==
    /\ nextPoll # 0 => now < nextPoll
    /\ \A i \in DOMAIN restart.oldTimers : now < restart.oldTimers[i]
    /\ botPc = "cooldown" => now < restart.wake

TickRestart ==
    /\ botPc # "exited"
    /\ ticks < MaxTicks
    /\ NoDueRestartTimer
    /\ NoPollFetchPending
    /\ now' = now + 1
    /\ ticks' = ticks + 1
    /\ events' = <<>>
    /\ UNCHANGED <<quiets, previousScores, postingInProgress, lastMemoryReset, botPc,
                   restart, nextPoll, cyc, goalPosts, corrections>>

NextRestart ==
    \/ \E c \in Cycles : LoginRestart(c)
    \/ \E c \in Cycles : CurrentTimerFires(c)
    \/ \E c \in Cycles : OldTimerFires(c)
    \/ \E c \in Cycles : ScheduleReturnsRestart(c)
    \/ CooldownDone
    \/ TickRestart

SpecRestart == Init /\ [][NextRestart]_vars

\* The origins of the polls that failed with an outage error in the step that
\* left evs.
Outages(evs) ==
    {evs[i].kind : i \in {j \in DOMAIN evs : evs[j].ev = "outage"}}

\* C29: a poll that fails with an outage error, the initial poll or one that
\* the timer started, puts startBot into its 60 s cool-down, after which it
\* logs in again.
C29_OutageRestartsBot ==
    [][/\ Outages(events') # {}
             => /\ botPc' = "cooldown"
                /\ restart'.wake = now' + RESTART_DELAY
       /\ (botPc = "cooldown" /\ botPc' # "cooldown")
             => /\ botPc' = "login"
                /\ now' >= restart.wake]_vars

\* C30: at most one interval timer is active.
C30_OnePollTimer == ActiveTimers <= 1

\* ---------------------------------------------------------------------------
\* Two scoring plays in one response: the first poll finds the live game with
\* up to two goals, later polls find no live game.
TwoGoalLists ==
    {s \in UNION {[1..n -> Goals] : n \in 0..(MaxGoals + 1)} :
        \A i, j \in DOMAIN s : i < j => s[i].eventId < s[j].eventId}

PbpReturnsTwoGoals(c) == PbpReturnsFrom(c, BOOLEAN, TwoGoalLists)

NextTwoGoals ==
    \/ LoginOk
    \/ PollNoLiveGame
    \/ \E c \in Cycles : ScheduleReturns(c)
    \/ \E c \in Cycles : PbpReturnsTwoGoals(c)
    \/ \E c \in Cycles : SettleDone(c)
    \/ \E c \in Cycles : VerifyReturns(c)
    \/ \E c \in Cycles : PostReturns(c)
    \/ \E c \in Cycles : RenewReturns(c)
    \/ \E c \in Cycles : PostDelayDone(c)
    \/ Tick

SpecTwoGoals == Init /\ [][NextTwoGoals]_vars

\* C31: within one poll cycle one goal's workflow is in progress at a time: a
\* suspended workflow starts no other goal of its cycle, the goals behind it
\* wait, a delay that is not over starts nothing, and of the invocations one
\* step starts only the last one may suspend.
C31_OneWorkflowPerCycle ==
    [][\A c \in Cycles : cyc'[c] # cyc[c] =>
          /\ (cyc[c].pc \in WorkflowPcs /\ ~ReturnsIn(c)) =>
                 /\ Observed(events') = {}
                 /\ cyc'[c].goals = cyc[c].goals
          /\ (cyc[c].pc \in {"settle", "postdelay"} /\ Observed(events') # {}) =>
                 now >= cyc[c].wake
          /\ \A i, j \in Observed(events') :
                 i < j => events'[i].kind \notin AwaitingKinds]_vars

\* The second goal of a response is in its settle delay, after the workflow
\* of the first one ended with its announcement posted.
C31_Witness ==
    \E c \in Cycles :
        /\ cyc[c].pc = "settle"
        /\ cyc[c].goal.eventId = 2
        /\ \E k \in DOMAIN previousScores :
               /\ k # cyc[c].key
               /\ k[1] = cyc[c].gameId
               /\ previousScores[k].posted

\* The key whose workflow the slot c holds after the step was entered by it.
StartsWorkflowOf(c, k) ==
    /\ cyc'[c] # cyc[c]
    /\ cyc'[c].pc \in WorkflowPcs
    /\ cyc'[c].key = k

\* C32: an invocation that finds the key's lock not older than 60 s returns
\* at once: it leaves previousScores as it found it, makes no publish call for
\* the key, starts no workflow, and the lock stays with its stamp.
C32_RefusedChangesNothing ==
    [][\A i \in Observed(events') :
          LET e == events'[i]
              k == e.key
          IN  (k \in DOMAIN postingInProgress
                  /\ now' - postingInProgress[k] <= LOCK_MAX_AGE)
              => /\ e.kind = "LOCKED"
                 /\ e.after = e.before
                 /\ ~Called(events', k)
                 /\ \A c \in Cycles : ~StartsWorkflowOf(c, k)
                 /\ k \in DOMAIN postingInProgress'
                 /\ postingInProgress'[k] = postingInProgress[k]]_vars

\* The last step observed a goal whose key another invocation had locked, and
\* the lock and that invocation's unposted record are in place.
C32_Witness ==
    \E i \in Observed(events) :
        /\ events[i].kind = "LOCKED"
        /\ events[i].key \in DOMAIN postingInProgress
        /\ events[i].key \in DOMAIN previousScores
        /\ ~previousScores[events[i].key].posted

\* The keys whose verification fetch threw in the step that left evs.
VerifyThrewIn(evs) ==
    {evs[i].key : i \in {j \in DOMAIN evs : evs[j].ev = "verify" /\ evs[j].kind = "throw"}}

\* C33: a verification fetch that throws makes no publish call and leaves no
\* record of the key; a record comes into being only by an observation
\* classified NEW; and an observation that finds no record of its key, is not
\* refused by the lock and is matched by no posted announcement of the same
\* goal creates the record afresh and starts a whole settle delay.
C33_VerifyErrorForgetsKey ==
    [][/\ \A k \in VerifyThrewIn(events') :
            /\ ~Called(events', k)
            /\ k \notin DOMAIN previousScores'
       /\ \A k \in DOMAIN previousScores' \ DOMAIN previousScores :
            \E i \in Observed(events') :
                events'[i].key = k /\ events'[i].kind = "NEW"
       /\ \A i \in Observed(events') :
            LET e == events'[i]
            IN  (e.key \notin DOMAIN e.before /\ e.kind \notin {"LOCKED", "DUPLICATE"})
                => /\ e.kind = "NEW"
                   /\ e.after = Put(e.before, e.key, NewRecord(e.goal, now'))
                   /\ \E c \in Cycles :
                         /\ StartsWorkflowOf(c, e.key)
                         /\ cyc'[c].pc = "settle"
                         /\ cyc'[c].wake = now' + INITIAL_DELAY]_vars

\* The verification fetch of a key has just thrown: the key has no record and
\* no lock, and no publish call was made for it.
C33_Witness ==
    \E k \in VerifyThrewIn(events) :
        /\ k \notin DOMAIN previousScores
        /\ k \notin DOMAIN postingInProgress
        /\ ~Called(events, k)

\* ---------------------------------------------------------------------------
\* attemptLogin (lines 486-520) in startBot's loop: bot.login may fail, and a
\* failed call is followed by a delay and another call, up to maxRetries.
MAX_LOGIN_RETRIES == 5
LOGIN_RETRY_DELAY == 30000 \div MS_PER_TICK

\* ok: bot.login resolved.  upstream: it threw an error whose message holds
\* 'Upstream' or 'Failed to fetch', or whose status is 502.  other: any other
\* error.
LoginOutcomes == {"ok", "upstream", "other"}

\* Line 514: nextDelay.
LoginBackoff(outcome) ==
    IF outcome = "upstream" THEN LOGIN_RETRY_DELAY * 2 ELSE LOGIN_RETRY_DELAY

\* A loop that goes on to the delay after every failure.
LoginNeverGivesUp(attempt) == FALSE

\* Line 509-512: if (attempt === maxRetries) process.exit(1)
LoginGivesUp(attempt) == attempt = MAX_LOGIN_RETRIES

\* Lines 487-516, 524-603: the bot.login call of one loop iteration returned.
\* After success the interval is set and the initial poll is started and
\* awaited; after a failure the process exits or the loop delays.
LoginReturns(c) ==
    /\ botPc = "login"
    /\ \E outcome \in LoginOutcomes :
          LET n == restart.attempt + 1
          IN  IF outcome = "ok"
              THEN /\ botPc' = "polling"
                   /\ nextPoll' = now + POLL_INTERVAL
                   /\ restart' = [restart EXCEPT
                                     !.awaited = c,
                                     !.oldTimers = IF nextPoll = 0 THEN @
                                                   ELSE Append(@, nextPoll),
                                     !.attempt = 0,
                                     !.loggedIn = TRUE]
                   /\ BeginPoll(c)
              ELSE /\ botPc' = IF LoginGivesUp(n) THEN "exited" ELSE "loginWait"
                   /\ restart' = [restart EXCEPT
                                     !.attempt = n,
                                     !.wake = IF LoginGivesUp(n) THEN 0
                                              ELSE now + LoginBackoff(outcome)]
                   /\ events' = <<Ev("login", NoKey, outcome, NoText)>>
                   /\ UNCHANGED <<nextPoll, cyc, previousScores, lastMemoryReset>>
    /\ UNCHANGED <<now, ticks, quiets, postingInProgress, goalPosts, corrections>>

\* Line 516: the delay between two attempts is over.
LoginDelayDone ==
    /\ botPc = "loginWait"
    /\ now >= restart.wake
    /\ botPc' = "login"
    /\ restart' = [restart EXCEPT !.wake = 0]
    /\ events' = <<>>
    /\ UNCHANGED <<now, ticks, quiets, previousScores, postingInProgress, lastMemoryReset,
                   nextPoll, cyc, goalPosts, corrections>>

TickLogin ==
    /\ botPc = "loginWait" => now < restart.wake
    /\ TickRestart

NextLogin ==
    \/ \E c \in Cycles : LoginReturns(c)
    \/ LoginDelayDone
    \/ \E c \in Cycles : CurrentTimerFires(c)
    \/ \E c \in Cycles : OldTimerFires(c)
    \/ \E c \in Cycles : ScheduleReturnsRestart(c)
    \/ CooldownDone
    \/ TickLogin

SpecLogin == Init /\ [][NextLogin]_vars

\* A bot.login call failed in the step.
LoginFailed == restart'.attempt = restart.attempt + 1

\* A pollGames invocation was started in the step.
PollStartedIn(c) == cyc[c].pc = "idle" /\ cyc'[c].pc # "idle"

\* C34: one attemptLogin invocation makes at most 5 bot.login calls; the
\* failure of the fifth ends the process, after which nothing runs; and the
\* interval is set and polls are started only after a login that succeeded.
C34_LoginBoundedAndRequired ==
    [][/\ restart'.attempt <= MAX_LOGIN_RETRIES
       /\ (LoginFailed /\ restart'.attempt = MAX_LOGIN_RETRIES) => botPc' = "exited"
       /\ (LoginFailed /\ restart'.attempt < MAX_LOGIN_RETRIES) => botPc' = "loginWait"
       /\ botPc = "exited" => (botPc' = "exited" /\ cyc' = cyc)
       /\ (botPc # "polling" /\ botPc' = "polling")
             => /\ botPc = "login"
                /\ restart'.loggedIn
                /\ ~LoginFailed
       /\ nextPoll' # nextPoll => restart'.loggedIn
       /\ \A c \in Cycles : PollStartedIn(c) => restart'.loggedIn]_vars

\* Five bot.login calls failed in a row: the process has exited and no poll
\* was ever started.
C34_Witness ==
    /\ botPc = "exited"
    /\ restart.attempt = MAX_LOGIN_RETRIES
    /\ ~restart.loggedIn
    /\ nextPoll = 0
    /\ \A c \in Cycles : cyc[c].pc = "idle"

\* ---------------------------------------------------------------------------
\* processGoalPlay (lines 163-210): a raw scoring play of the provider's
\* play-by-play response becomes a Goal, or null.
\* A roster spot; named: firstName and lastName are present.
Player(id, first, last, number, named) ==
    [playerId |-> id, firstName |-> first, lastName |-> last, sweaterNumber |-> number,
     named |-> named]

\* The rosters of a response: both players, the second one without a name,
\* and no player at all.
Rosters ==
    {<<Player(9, "A", "B", 9, TRUE), Player(7, "C", "D", 7, TRUE)>>,
     <<Player(9, "A", "B", 9, TRUE), Player(7, "C", "D", 7, FALSE)>>,
     <<>>}

\* scoringPlayerId and assist.playerId: 8 is in no roster, 0 stands for a
\* missing id.
PlayerIds == {9, 7, 8, 0}
AssistLists == {<<>>, <<7>>, <<8>>, <<7, 8>>}

HomeTeam == [id |-> 10, abbrev |-> HOME]
AwayTeams == {[id |-> 20, abbrev |-> AWAY], [id |-> 20, abbrev |-> ""]}
\* eventOwnerTeamId: the home team, the away team, a third team.
OwnerIds == {10, 20, 30}

\* The play-by-play data processGoalPlay reads beside the play.
GameData ==
    {[homeTeam |-> HomeTeam, awayTeam |-> a, rosterSpots |-> r] :
        a \in AwayTeams, r \in Rosters}

\* play.details and play.periodDescriptor; defined: the object is present.
Details(defined, scoringPlayerId, eventOwnerTeamId, assists, awayScore, homeScore) ==
    [defined |-> defined, scoringPlayerId |-> scoringPlayerId,
     eventOwnerTeamId |-> eventOwnerTeamId, assists |-> assists,
     awayScore |-> awayScore, homeScore |-> homeScore]

PeriodDescriptor(defined, number, periodType) ==
    [defined |-> defined, number |-> number, periodType |-> periodType]

RawPlay(eventId, typeDescKey, details, timeInPeriod, periodDescriptor) ==
    [eventId |-> eventId, typeDescKey |-> typeDescKey, details |-> details,
     timeInPeriod |-> timeInPeriod, periodDescriptor |-> periodDescriptor]

\* rosterSpots.find(player => player.playerId === id): the index of the first
\* match, 0 for undefined.
FindPlayer(roster, id) ==
    LET I == {i \in DOMAIN roster : roster[i].playerId = id}
    IN  IF I = {} THEN 0 ELSE CHOOSE i \in I : \A j \in I : i <= j

\* `${firstName.default} ${lastName.default} (#${sweaterNumber})`
PlayerLabel(p) ==
    p.firstName \o " " \o p.lastName \o " (#" \o ToString(p.sweaterNumber) \o ")"

\* Lines 171, 192-194: the label of the player, or 'Unknown Player'.
LabelOrUnknown(roster, id) ==
    IF FindPlayer(roster, id) = 0 THEN "Unknown Player"
    ELSE PlayerLabel(roster[FindPlayer(roster, id)])

\* Lines 180-185: assists.map(...).join(', ')
RECURSIVE ProcessedAssists(_, _)
ProcessedAssists(roster, assists) ==
    IF assists = <<>> THEN ""
    ELSE IF Len(assists) = 1 THEN LabelOrUnknown(roster, assists[1])
    ELSE LabelOrUnknown(roster, assists[1]) \o ", "
         \o ProcessedAssists(roster, Tail(assists))

\* A player that is found and has no name makes the template throw.
Unnamed(roster, id) ==
    FindPlayer(roster, id) # 0 /\ ~roster[FindPlayer(roster, id)].named

\* A normalisation that takes a scorer or an assister missing from the roster
\* for an error.
ThrowsOnUnknownPlayer(play, data) ==
    \/ ~play.details.defined
    \/ ~play.periodDescriptor.defined
    \/ FindPlayer(data.rosterSpots, play.details.scoringPlayerId) = 0
    \/ \E i \in DOMAIN play.details.assists :
          FindPlayer(data.rosterSpots, play.details.assists[i]) = 0
    \/ Unnamed(data.rosterSpots, play.details.scoringPlayerId)
    \/ \E i \in DOMAIN play.details.assists :
          Unnamed(data.rosterSpots, play.details.assists[i])

\* The errors of the try block: line 165 (no details), line 176 (no
\* periodDescriptor), lines 183 and 193 (a roster spot without a name).
Throws(play, data) ==
    \/ ~play.details.defined
    \/ ~play.periodDescriptor.defined
    \/ Unnamed(data.rosterSpots, play.details.scoringPlayerId)
    \/ \E i \in DOMAIN play.details.assists :
          Unnamed(data.rosterSpots, play.details.assists[i])

\* Lines 187-189.
ScoringTeam(play, data) ==
    IF play.details.eventOwnerTeamId = data.homeTeam.id
    THEN data.homeTeam.abbrev
    ELSE data.awayTeam.abbrev

\* null is NoGoal.
processGoalPlay(play, data) ==
    IF Throws(play, data)
    THEN NoGoal
    ELSE [eventId |-> play.eventId,
          scorer |-> LabelOrUnknown(data.rosterSpots, play.details.scoringPlayerId),
          assists |-> ProcessedAssists(data.rosterSpots, play.details.assists),
          time |-> play.timeInPeriod,
          period |-> IF play.periodDescriptor.periodType = "REG"
                     THEN play.periodDescriptor.number
                     ELSE play.periodDescriptor.periodType,
          team |-> IF ScoringTeam(play, data) # "" THEN ScoringTeam(play, data)
                   ELSE "Unknown Team",
          score |-> <<play.details.awayScore, play.details.homeScore>>,
          rawScores |-> [away |-> play.details.awayScore,
                         home |-> play.details.homeScore]]

\* An entry of events for a call of processGoalPlay: before it ("input") and
\* after it ("normalize").
EvPlay(ev, play, data, result) ==
    [ev |-> ev, play |-> play, data |-> data, result |-> result]

\* The plays processGoalPlay is applied to.
RawPlays ==
    {RawPlay(1, "goal", Details(d, s, o, a, 1, 0), <<"04", "12">>,
             PeriodDescriptor(p, 1, "REG")) :
        d \in BOOLEAN, s \in PlayerIds, o \in OwnerIds, a \in AssistLists,
        p \in BOOLEAN}

InitNormalize ==
    /\ now \in StartTimes
    /\ ticks = 0
    /\ quiets = 0
    /\ previousScores = Empty
    /\ postingInProgress = Empty
    /\ lastMemoryReset = now
    /\ botPc = "polling"
    /\ restart = NoRestart
    /\ nextPoll = now + POLL_INTERVAL
    /\ cyc = [c \in Cycles |-> Idle]
    /\ goalPosts = Empty
    /\ corrections = Empty
    /\ events \in {<<EvPlay("input", p, d, NoGoal)>> : p \in RawPlays, d \in GameData}

Normalize ==
    /\ events # <<>>
    /\ events[1].ev = "input"
    /\ events' = <<EvPlay("normalize", events[1].play, events[1].data,
                          processGoalPlay(events[1].play, events[1].data))>>
    /\ UNCHANGED <<now, ticks, quiets, previousScores, postingInProgress, lastMemoryReset,
                   botPc, restart, nextPoll, cyc, goalPosts, corrections>>

NextNormalize == Normalize

SpecNormalize == InitNormalize /\ [][NextNormalize]_vars

\* The calls of processGoalPlay that the step leaving evs made.
Normalized(evs) == {i \in DOMAIN evs : evs[i].ev = "normalize"}

\* C35: the goal goes to the home abbreviation when eventOwnerTeamId is the
\* home team's id, to the away abbreviation when it is the away team's id, and
\* to 'Unknown Team' when it is neither.
C35_TeamAttribution ==
    \A i \in Normalized(events) :
        LET e == events[i]
            owner == e.play.details.eventOwnerTeamId
        IN  e.result # NoGoal =>
               /\ (owner = e.data.homeTeam.id /\ e.data.homeTeam.abbrev # "")
                     => e.result.team = e.data.homeTeam.abbrev
               /\ (owner = e.data.awayTeam.id /\ e.data.awayTeam.abbrev # "")
                     => e.result.team = e.data.awayTeam.abbrev
               /\ owner \notin {e.data.homeTeam.id, e.data.awayTeam.id}
                     => e.result.team = "Unknown Team"

\* The label the claim gives the player of an id.
C36_Label(e, id) ==
    IF \E j \in DOMAIN e.data.rosterSpots : e.data.rosterSpots[j].playerId = id
    THEN PlayerLabel(e.data.rosterSpots[FindPlayer(e.data.rosterSpots, id)])
    ELSE "Unknown Player"

\* The play has its details and its period, and every roster spot it names
\* has a name.
C36_WellFormed(e) ==
    /\ e.play.details.defined
    /\ e.play.periodDescriptor.defined
    /\ \A j \in DOMAIN e.data.rosterSpots :
          (e.data.rosterSpots[j].playerId = e.play.details.scoringPlayerId
              \/ \E a \in DOMAIN e.play.details.assists :
                    e.play.details.assists[a] = e.data.rosterSpots[j].playerId)
          => e.data.rosterSpots[j].named

\* C36: a scorer that is not in the roster gives a Goal, not null, whose
\* scorer is 'Unknown Player', and every assisting player that is not in the
\* roster appears as 'Unknown Player' in the assists.
C36_UnknownPlayerIsNoFailure ==
    \A i \in Normalized(events) :
        LET e == events[i]
            a == e.play.details.assists
            inRoster(id) == \E j \in DOMAIN e.data.rosterSpots :
                                e.data.rosterSpots[j].playerId = id
        IN  C36_WellFormed(e) =>
               /\ e.result # NoGoal
               /\ ~inRoster(e.play.details.scoringPlayerId)
                     => e.result.scorer = "Unknown Player"
               /\ Len(a) = 0 => e.result.assists = ""
               /\ Len(a) = 1 => e.result.assists = C36_Label(e, a[1])
               /\ Len(a) = 2 => e.result.assists
                                   = C36_Label(e, a[1]) \o ", " \o C36_Label(e, a[2])

\* The scorer and one of two assisting players are not in the roster: the
\* result is a Goal with 'Unknown Player' in both places.
C36_Witness ==
    \E i \in Normalized(events) :
        /\ events[i].play.details.scoringPlayerId = 8
        /\ events[i].play.details.assists = <<7, 8>>
        /\ events[i].result # NoGoal
        /\ events[i].result.scorer = "Unknown Player"
        /\ events[i].result.assists = "C D (#7), Unknown Player"

\* ---------------------------------------------------------------------------
\* pollGames on raw plays (lines 563-570): the scoring plays of a response are
\* normalised, the nulls are dropped, and handleGoalUpdate gets the rest.
\* Line 564: the filter before the map.
IsScoringPlay(play) ==
    /\ play.typeDescKey = "goal"
    /\ play.details.defined
    /\ play.details.scoringPlayerId # 0

RECURSIVE MapPlays(_, _)
MapPlays(plays, data) ==
    IF plays = <<>> THEN <<>>
    ELSE <<processGoalPlay(Head(plays), data)>> \o MapPlays(Tail(plays), data)

\* A pipeline that ends at the first play that cannot be normalised.
RECURSIVE UntilNull(_)
UntilNull(goals) ==
    IF goals = <<>> \/ Head(goals) = NoGoal THEN <<>>
    ELSE <<Head(goals)>> \o UntilNull(Tail(goals))

NewGoalsUntilNull(data) ==
    UntilNull(MapPlays(SelectSeq(data.plays, IsScoringPlay), data))

\* Lines 563-566: filter, map, filter.
NewGoals(data) ==
    SelectSeq(MapPlays(SelectSeq(data.plays, IsScoringPlay), data),
              LAMBDA goal : goal # NoGoal)

\* The calls of processGoalPlay that the pipeline makes, as entries of events.
RECURSIVE EvPlays(_, _)
EvPlays(plays, data) ==
    IF plays = <<>> THEN <<>>
    ELSE <<EvPlay("normalize", Head(plays), data, processGoalPlay(Head(plays), data))>>
         \o EvPlays(Tail(plays), data)

\* The plays a response may hold for an event: a goal or another play, by a
\* player of the roster or without a scorer, with or without its period.
PlaysOf(eventId) ==
    {RawPlay(eventId, t, Details(TRUE, s, 10, <<>>, eventId, 0), <<"04", "12">>,
             PeriodDescriptor(p, 1, "REG")) :
        t \in {"goal", "faceoff"}, s \in {9, 7, 0}, p \in BOOLEAN}

PlayLists ==
    {<<>>} \cup {<<p>> : p \in PlaysOf(1) \cup PlaysOf(2)}
           \cup {<<p, q>> : p \in PlaysOf(1), q \in PlaysOf(2)}

Responses ==
    {[homeTeam |-> HomeTeam, awayTeam |-> [id |-> 20, abbrev |-> AWAY],
      rosterSpots |-> r, plays |-> l] :
        r \in Rosters \ {<<>>}, l \in PlayLists}

\* Lines 557-573: fetchGamePlayByPlay returned a response, or threw.
PbpReturnsPlays(c) ==
    /\ cyc[c].pc = "pbp"
    /\ \E ok \in BOOLEAN : \E data \in Responses :
          Apply(c, IF ok
                   THEN RunGoals(cyc[c], NewGoals(data), previousScores,
                                 postingInProgress,
                                 EvPlays(SelectSeq(data.plays, IsScoringPlay), data), now)
                   ELSE NextGame(cyc[c], previousScores, postingInProgress,
                                 <<EvGameError(cyc[c].gameId)>>))
    /\ UNCHANGED <<now, ticks, quiets, lastMemoryReset, botPc, nextPoll, goalPosts,
                   corrections, restart>>

NextPlays ==
    \/ LoginOk
    \/ PollNoLiveGame
    \/ \E c \in Cycles : ScheduleReturns(c)
    \/ \E c \in Cycles : PbpReturnsPlays(c)
    \/ \E c \in Cycles : SettleDone(c)
    \/ \E c \in Cycles : VerifyReturns(c)
    \/ \E c \in Cycles : PostReturns(c)
    \/ \E c \in Cycles : RenewReturns(c)
    \/ \E c \in Cycles : PostDelayDone(c)
    \/ Tick

SpecPlays == Init /\ [][NextPlays]_vars

\* handleGoalUpdate was called for the goal in the step that left evs.
ObservedGoal(evs, goal) ==
    \E i \in Observed(evs) : evs[i].goal = goal

\* The goal waits in the slot c for the workflow before it to return.
Queued(c, goal) ==
    \E i \in DOMAIN cyc'[c].goals : cyc'[c].goals[i] = goal

\* C37: a scoring play that processGoalPlay turns into null leaves no record
\* and no publish call and reaches handleGoalUpdate in no form, while every
\* other scoring play of the response is handed to handleGoalUpdate in that
\* cycle: in the same step, or when the workflow before it has returned.
C37_NullPlayDroppedOthersProcessed ==
    [][/\ \A i \in Normalized(events') :
            LET e == events'[i]
            IN  IF e.result = NoGoal
                THEN /\ \A j \in Observed(events') :
                            events'[j].goal.eventId # e.play.eventId
                     /\ \A k \in DOMAIN previousScores' \ DOMAIN previousScores :
                            k[2] # e.play.eventId
                     /\ \A j \in DOMAIN events' :
                            events'[j].ev = "call" => events'[j].key[2] # e.play.eventId
                     /\ \A c \in Cycles :
                            /\ cyc'[c].goal.eventId # e.play.eventId
                            /\ \A g \in DOMAIN cyc'[c].goals :
                                  cyc'[c].goals[g].eventId # e.play.eventId
                ELSE \/ ObservedGoal(events', e.result)
                     \/ \E c \in Cycles : cyc'[c] # cyc[c] /\ Queued(c, e.result)
       /\ \A c \in Cycles :
            (ReturnsIn(c) /\ cyc[c].goals # <<>>)
                => ObservedGoal(events', Head(cyc[c].goals))]_vars

\* The first scoring play of a response could not be normalised and the second
\* one was handed to handleGoalUpdate, which made its record; there is no
\* record of the first.
C37_Witness ==
    \E i, j \in Normalized(events) :
        /\ i < j
        /\ events[i].result = NoGoal
        /\ events[j].result # NoGoal
        /\ \E o \in Observed(events) :
              /\ events[o].goal = events[j].result
              /\ events[o].kind = "NEW"
        /\ \A k \in DOMAIN previousScores : k[2] = events[j].play.eventId
        /\ previousScores # Empty

====
